---- MODULE Spec2Model ----
(***************************************************************************)
(* CatchExcelImage: extraction of embedded (DISPIMG) and floating images   *)
(* from an .xlsx package (src/core.py), and the GUI worker that calls it   *)
(* (src/gui.py).                                                           *)
(*                                                                         *)
(* Text (cell values, column specifications, archive paths, file names) is *)
(* a sequence of one-character strings, so that find / split / strip /     *)
(* slicing are computed the way Python computes them.  Indexes of Find and *)
(* Slice are 0-based like Python's.                                        *)
(***************************************************************************)
EXTENDS Integers, Sequences, FiniteSets, TLC

\* ------------------------------------------------------------------------
\* Python string primitives
\* ------------------------------------------------------------------------

\* s[a:b] for 0 <= a; a negative b counts from the end (value[start:-1])
Slice(s, a, b) ==
    LET n  == Len(s)
        bb == IF b < 0 THEN (IF n + b < 0 THEN 0 ELSE n + b)
                       ELSE (IF b > n THEN n ELSE b)
        aa == IF a > n THEN n ELSE a
    IN  IF aa >= bb THEN <<>> ELSE SubSeq(s, aa + 1, bb)

\* sub occurs in s at 0-based index i
OccursAt(s, sub, i) ==
    /\ i >= 0
    /\ i + Len(sub) <= Len(s)
    /\ SubSeq(s, i + 1, i + Len(sub)) = sub

\* s.find(sub, start): lowest index >= start where sub occurs, else -1
Find(s, sub, start) ==
    LET hits == {i \in start..Len(s) : OccursAt(s, sub, i)}
    IN  IF hits = {} THEN -1
        ELSE CHOOSE i \in hits : \A j \in hits : i <= j

\* sub in s
Contains(s, sub) == Find(s, sub, 0) # -1

\* s.startswith(p), s.endswith(p)
StartsWith(s, p) == OccursAt(s, p, 0)
EndsWith(s, p) == OccursAt(s, p, Len(s) - Len(p))

\* s.strip(): leading and trailing blanks removed
RECURSIVE Strip(_)
Strip(s) ==
    IF s = <<>> THEN <<>>
    ELSE IF Head(s) = " " THEN Strip(Tail(s))
    ELSE IF s[Len(s)] = " " THEN Strip(SubSeq(s, 1, Len(s) - 1))
    ELSE s

\* s.split(sep) for a one-character separator: always at least one piece
RECURSIVE SplitFrom(_, _, _)
SplitFrom(s, sep, start) ==
    LET i == Find(s, <<sep>>, start)
    IN  IF i = -1 THEN <<Slice(s, start, Len(s))>>
        ELSE <<Slice(s, start, i)>> \o SplitFrom(s, sep, i + 1)

Split(s, sep) == SplitFrom(s, sep, 0)

\* the elements of a sequence, as a set: set(list)
Range(seq) == {seq[i] : i \in DOMAIN seq}

\* s.replace(old, new): every non-overlapping occurrence, left to right
RECURSIVE Replace(_, _, _)
Replace(s, old, new) ==
    LET i == Find(s, old, 0)
    IN  IF i = -1 THEN s
        ELSE Slice(s, 0, i) \o new \o Replace(Slice(s, i + Len(old), Len(s)), old, new)

\* path.split('/')[-1]
BaseName(path) == LET parts == Split(path, "/") IN parts[Len(parts)]

\* os.path.splitext(name): <<root, ext>>; the extension starts at the last dot,
\* unless that dot only leads the name
SplitExt(name) ==
    LET dots == {i \in 1..Len(name) : name[i] = "."}
        last == IF dots = {} THEN 0 ELSE CHOOSE i \in dots : \A j \in dots : j <= i
        lead == \A k \in 1..(last - 1) : name[k] = "."
    IN  IF last = 0 \/ lead THEN <<name, <<>> >>
        ELSE <<SubSeq(name, 1, last - 1), SubSeq(name, last, Len(name))>>

\* ------------------------------------------------------------------------
\* Literals of the source
\* ------------------------------------------------------------------------
Marker == <<"=", "_", "x", "l", "f", "n", ".", "D", "I", "S", "P", "I", "M", "G", "(">>
Quote == <<"\"">>
PngExt == <<".", "p", "n", "g">>
FloatPrefix == <<"F", "L", "O", "A", "T", "_">>
XlPrefix == <<"x", "l", "/">>
MediaDir == <<"x", "l", "/", "m", "e", "d", "i", "a", "/">>
CellImagesPath == <<"x", "l", "/", "c", "e", "l", "l", "i", "m", "a", "g", "e", "s", ".", "x", "m", "l">>
CellImagesRelsPath == <<"x", "l", "/", "_", "r", "e", "l", "s", "/", "c", "e", "l", "l", "i", "m", "a", "g", "e", "s", ".", "x", "m", "l", ".", "r", "e", "l", "s">>
SheetRelsPrefix == <<"x", "l", "/", "w", "o", "r", "k", "s", "h", "e", "e", "t", "s", "/", "_", "r", "e", "l", "s", "/", "s", "h", "e", "e", "t">>
XmlRelsExt == <<".", "x", "m", "l", ".", "r", "e", "l", "s">>
XmlExt == <<".", "x", "m", "l">>
DrawingMarker == <<"d", "r", "a", "w", "i", "n", "g">>
Alphabet == <<"A", "B", "C", "D", "E", "F", "G", "H", "I", "J", "K", "L", "M", "N", "O", "P", "Q", "R", "S", "T", "U", "V", "W", "X", "Y", "Z">>
LowerAlphabet == <<"a", "b", "c", "d", "e", "f", "g", "h", "i", "j", "k", "l", "m", "n", "o", "p", "q", "r", "s", "t", "u", "v", "w", "x", "y", "z">>
Digits == <<"0", "1", "2", "3", "4", "5", "6", "7", "8", "9">>

\* str(n) for n >= 0
RECURSIVE Str(_)
Str(n) == IF n < 10 THEN <<Digits[n + 1]>> ELSE Str(n \div 10) \o <<Digits[(n % 10) + 1]>>

\* ------------------------------------------------------------------------
\* openpyxl.utils column helpers, as core.py uses them
\* ------------------------------------------------------------------------

\* ch.upper()
Upper(ch) ==
    IF \E i \in 1..26 : LowerAlphabet[i] = ch
    THEN Alphabet[CHOOSE i \in 1..26 : LowerAlphabet[i] = ch]
    ELSE ch

\* the value 1..26 of a letter, 0 for any other character
LetterValue(ch) ==
    IF \E i \in 1..26 : Alphabet[i] = Upper(ch)
    THEN CHOOSE i \in 1..26 : Alphabet[i] = Upper(ch)
    ELSE 0

RECURSIVE Base26(_)
Base26(s) == IF s = <<>> THEN 0 ELSE 26 * Base26(SubSeq(s, 1, Len(s) - 1)) + LetterValue(s[Len(s)])

\* column_index_from_string(s): 1-based index of a name of one to three
\* letters (any case); 0 stands for the ValueError every other text raises
ColumnIndexFromString(s) ==
    IF Len(s) \in 1..3 /\ \A i \in 1..Len(s) : LetterValue(s[i]) # 0
    THEN Base26(s) ELSE 0

\* get_column_letter(i) for i >= 1
RECURSIVE GetColumnLetter(_)
GetColumnLetter(i) ==
    IF i <= 26 THEN <<Alphabet[i]>>
    ELSE GetColumnLetter((i - 1) \div 26) \o <<Alphabet[((i - 1) % 26) + 1]>>

\* ------------------------------------------------------------------------
\* Dictionaries.  A dict built by successive assignment d[k] = v is given by
\* the sequence of its assignments, each [ok, k, v] (ok: the assignment is
\* executed): a key keeps its last value and the position of its first
\* assignment.
\* ------------------------------------------------------------------------
Last(S) == CHOOSE i \in S : \A j \in S : j <= i

DictKeys(assigns) == {assigns[i].k : i \in {j \in DOMAIN assigns : assigns[j].ok}}

DictOf(assigns) ==
    [key \in DictKeys(assigns) |->
        assigns[Last({i \in DOMAIN assigns : assigns[i].ok /\ assigns[i].k = key})].v]

\* the keys in dict iteration order (order of first insertion)
RECURSIVE KeyOrderTo(_, _)
KeyOrderTo(assigns, n) ==
    IF n = 0 THEN <<>>
    ELSE IF /\ assigns[n].ok
            /\ \A j \in 1..(n - 1) : ~(assigns[j].ok /\ assigns[j].k = assigns[n].k)
         THEN KeyOrderTo(assigns, n - 1) \o <<assigns[n].k>>
         ELSE KeyOrderTo(assigns, n - 1)

KeyOrder(assigns) == KeyOrderTo(assigns, Len(assigns))

\* ------------------------------------------------------------------------
\* The package: a ZIP archive of parts, and the workbook openpyxl loads
\* from it.  A part has a name, bytes (media), and, for an XML part, its
\* picture nodes and its Relationship nodes.
\* ------------------------------------------------------------------------
namelist(p) == [i \in DOMAIN p.parts |-> p.parts[i].name]

HasPart(p, path) == \E i \in DOMAIN p.parts : p.parts[i].name = path

\* z.read(path) and its parse; callers check HasPart first or raise KeyError
Part(p, path) == p.parts[Last({i \in DOMAIN p.parts : p.parts[i].name = path})]

\* zipfile.ZipFile(xlsx_path) / openpyxl.load_workbook(xlsx_path) succeed
Readable(p) == p.kind = "ok"

\* ------------------------------------------------------------------------
\* _extract_dispimg_ids
\* ------------------------------------------------------------------------

\* iter_rows: the cells of a worksheet in row-major order
CellsOf(ws) ==
    LET nr == Len(ws.rows)
        nc == IF nr = 0 THEN 0 ELSE Len(ws.rows[1])
    IN  [n \in 1..(nr * nc) |->
            LET r == ((n - 1) \div nc) + 1
                c == ((n - 1) % nc) + 1
            IN  [row |-> r, column |-> c, value |-> ws.rows[r][c]]]

\* the identifier read from a cell value that holds the marker
DispimgId(value) ==
    LET start == Find(value, Quote, 0) + 1
        end   == Find(value, Quote, start)
    IN  Slice(value, start, end)

\* the loops over the rows and their cells, from the n-th cell on
RECURSIVE ScanCellsFrom(_, _, _, _)
ScanCellsFrom(cells, n, target_col, col_idx) ==
    IF n > Len(cells) THEN <<>>
    ELSE IF target_col # <<>> /\ cells[n].column # col_idx
         THEN ScanCellsFrom(cells, n + 1, target_col, col_idx)
         ELSE IF Contains(cells[n].value, Marker)
         THEN <<DispimgId(cells[n].value)>> \o ScanCellsFrom(cells, n + 1, target_col, col_idx)
         ELSE ScanCellsFrom(cells, n + 1, target_col, col_idx)

ScanCells(cells, target_col, col_idx) == ScanCellsFrom(cells, 1, target_col, col_idx)

\* column_index_from_string(target_col) raises ValueError
ScanRaises(target_col) == target_col # <<>> /\ ColumnIndexFromString(target_col) = 0

\* mutant of ExtractDispimgIds: the target column is not looked at
ExtractDispimgIdsAllColumns(ws, target_col) ==
    ScanCells(CellsOf(ws), <<>>, 0)

\* the list of identifiers; an empty target_col means no column filter
ExtractDispimgIds(ws, target_col) ==
    ScanCells(CellsOf(ws), target_col, ColumnIndexFromString(target_col))

\* ------------------------------------------------------------------------
\* _build_id_to_image_map
\* ------------------------------------------------------------------------

\* the KeyError raised when a manifest part is missing
ManifestMissing(p) == ~HasPart(p, CellImagesPath) \/ ~HasPart(p, CellImagesRelsPath)

\* mutant of NameToRid: the first picture of a name keeps the name
NameToRidFirst(p) ==
    LET pics == Part(p, CellImagesPath).pics
    IN  [name \in {pics[i].name : i \in DOMAIN pics} |->
            pics[CHOOSE i \in DOMAIN pics :
                    /\ pics[i].name = name
                    /\ \A j \in DOMAIN pics : pics[j].name = name => i <= j].embed]

NameToRid(p) ==
    LET pics == Part(p, CellImagesPath).pics
    IN  DictOf([i \in DOMAIN pics |-> [ok |-> TRUE, k |-> pics[i].name, v |-> pics[i].embed]])

RidToPath(rs) ==
    DictOf([i \in DOMAIN rs |-> [ok |-> TRUE, k |-> rs[i].Id, v |-> rs[i].Target]])

\* {name: rid_to_path[rid] for name, rid in name_to_rid.items() if rid in rid_to_path}
BuildIdToImageMap(p) ==
    LET name_to_rid == NameToRid(p)
        rid_to_path == RidToPath(Part(p, CellImagesRelsPath).rels)
    IN  [name \in {n \in DOMAIN name_to_rid : name_to_rid[n] \in DOMAIN rid_to_path}
            |-> rid_to_path[name_to_rid[name]]]

\* ------------------------------------------------------------------------
\* _extract_floating_images: the media listing, in dict order
\* ------------------------------------------------------------------------
MediaAssigns(p) ==
    [i \in DOMAIN p.parts |->
        LET file_path == p.parts[i].name
        IN  [ok |-> StartsWith(file_path, MediaDir) /\ ~EndsWith(file_path, <<"/">>),
             k  |-> BaseName(file_path),
             v  |-> Slice(file_path, 3, Len(file_path))]]

\* mutant of ExtractFloatingImages: the first entry of a base filename is kept
ExtractFloatingImagesFirst(p) ==
    LET order == KeyOrder(MediaAssigns(p))
        first(key) == CHOOSE i \in DOMAIN p.parts :
                          /\ MediaAssigns(p)[i].ok /\ MediaAssigns(p)[i].k = key
                          /\ \A j \in 1..(i - 1) :
                                 ~(MediaAssigns(p)[j].ok /\ MediaAssigns(p)[j].k = key)
    IN  [i \in DOMAIN order |->
            [filename |-> order[i], internal_path |-> MediaAssigns(p)[first(order[i])].v]]

\* floating_images.items(): a sequence of [filename, internal_path]
ExtractFloatingImages(p) ==
    LET order == KeyOrder(MediaAssigns(p))
        dict  == DictOf(MediaAssigns(p))
    IN  [i \in DOMAIN order |-> [filename |-> order[i], internal_path |-> dict[order[i]]]]

\* ------------------------------------------------------------------------
\* _get_row_data_for_image.  None is written <<>>, as the value of an empty
\* cell is
\* ------------------------------------------------------------------------

\* ws.cell(row=row_num, column=col_idx).value: a cell the sheet does not hold
\* is created empty
CellValue(ws, row_num, col_idx) ==
    IF row_num \in DOMAIN ws.rows /\ col_idx \in DOMAIN ws.rows[row_num]
    THEN ws.rows[row_num][col_idx]
    ELSE <<>>

\* row_data once the loop over target_columns has run for the row: the
\* ValueError of a text that is no column name is caught and gives None
RowValues(ws, row_num, target_columns) ==
    [col_name \in Range(target_columns) |->
        IF ColumnIndexFromString(col_name) = 0 THEN <<>>
        ELSE CellValue(ws, row_num, ColumnIndexFromString(col_name))]

\* the loop over the cells, from the n-th cell on, in steps of step: it
\* returns at the first cell met that holds the marker and img_id
RECURSIVE RowDataScanFrom(_, _, _, _, _, _)
RowDataScanFrom(ws, cells, n, step, img_id, target_columns) ==
    IF n \notin DOMAIN cells THEN <<>>
    ELSE IF Contains(cells[n].value, Marker) /\ Contains(cells[n].value, img_id)
         THEN RowValues(ws, cells[n].row, target_columns)
         ELSE RowDataScanFrom(ws, cells, n + step, step, img_id, target_columns)

\* mutant of RowDataScan: the scan goes on after a match, the last match stays
RowDataScanLast(ws, cells, img_id, target_columns) ==
    RowDataScanFrom(ws, cells, Len(cells), -1, img_id, target_columns)

\* the loop over the cells of iter_rows
RowDataScan(ws, cells, img_id, target_columns) ==
    RowDataScanFrom(ws, cells, 1, 1, img_id, target_columns)

GetRowDataForImage(ws, img_id, target_columns) ==
    RowDataScan(ws, CellsOf(ws), img_id, target_columns)

\* [get_column_letter(i) for i in range(1, 27)]
AllColumns == [i \in 1..26 |-> GetColumnLetter(i)]

\* mutant of IdToWorksheet: the first worksheet that yields img_id is kept
IdToWorksheetFirst(sheets, img_id) ==
    LET hits == {i \in DOMAIN sheets : img_id \in Range(ExtractDispimgIds(sheets[i], <<>>))}
    IN  IF hits = {} THEN 0 ELSE CHOOSE i \in hits : \A j \in hits : i <= j

\* id_to_worksheet.get(img_id): the last worksheet whose scan yields img_id,
\* 0 for None
IdToWorksheet(sheets, img_id) ==
    LET hits == {i \in DOMAIN sheets : img_id \in Range(ExtractDispimgIds(sheets[i], <<>>))}
    IN  IF hits = {} THEN 0 ELSE Last(hits)

\* extract_image_by_id: the first worksheet whose lookup is not empty, 0 for none
FirstSheetWithRow(sheets, image_id) ==
    LET hits == {i \in DOMAIN sheets :
                    GetRowDataForImage(sheets[i], image_id, AllColumns) # <<>>}
    IN  IF hits = {} THEN 0 ELSE CHOOSE i \in hits : \A j \in hits : i <= j

\* the worksheet and the columns of the lookup an operation makes for the
\* naming callback, and the row_data it passes
RowContext(p, args, ws, column_list, img_id) ==
    LET sheet   == IF args.op = "workbook" THEN IdToWorksheet(p.sheets, img_id)
                   ELSE IF args.op = "id" THEN FirstSheetWithRow(p.sheets, img_id)
                   ELSE ws
        columns == IF args.op = "column" THEN column_list ELSE AllColumns
    IN  [id   |-> img_id,
         ws   |-> sheet,
         data |-> IF sheet = 0 THEN <<>>
                  ELSE GetRowDataForImage(p.sheets[sheet], img_id, columns)]

\* ------------------------------------------------------------------------
\* _get_all_images_map: KeyError of the resolver becomes the empty mapping
\* ------------------------------------------------------------------------
EmbeddedImages(p) == IF ManifestMissing(p) THEN <<>> ELSE BuildIdToImageMap(p)

\* ------------------------------------------------------------------------
\* _get_floating_image_positions
\* ------------------------------------------------------------------------

\* the 1-based index of the first worksheet titled sheet_name, 0 for None
SheetIndex(p, sheet_name) ==
    LET hits == {i \in DOMAIN p.sheets : p.sheets[i].title = sheet_name}
    IN  IF hits = {} THEN 0 ELSE CHOOSE i \in hits : \A j \in hits : i <= j

\* 'xl/' + Target of the first relationship of the worksheet's relationships
\* part whose Target contains 'drawing'; <<>> for None
DrawingPath(p, sheet_index) ==
    LET drawing_rels_path == SheetRelsPrefix \o Str(sheet_index) \o XmlRelsExt
    IN  IF ~HasPart(p, drawing_rels_path) THEN <<>>
        ELSE LET rs   == Part(p, drawing_rels_path).rels
                 hits == {i \in DOMAIN rs : Contains(rs[i].Target, DrawingMarker)}
             IN  IF hits = {} THEN <<>>
                 ELSE XlPrefix \o rs[CHOOSE i \in hits : \A j \in hits : i <= j].Target

\* pic.getparent(): the tree is built by xml.etree.ElementTree, whose Element
\* has no getparent, so the call raises AttributeError for every picture
GetParentRaises(pic) == TRUE

\* one picture node of the drawing: the assignment image_positions[filename] = {...}
\* it executes, ok = FALSE when the node is skipped or the try block is left
PicAssign(p, drawing_path, pic) ==
    LET drawing_rels_path == Replace(drawing_path, XmlExt, XmlRelsExt)
        rs     == IF HasPart(p, drawing_rels_path) THEN Part(p, drawing_rels_path).rels ELSE <<>>
        hits   == {i \in DOMAIN rs : rs[i].Id = pic.embed}
        target == IF hits = {} THEN <<>> ELSE rs[CHOOSE i \in hits : \A j \in hits : i <= j].Target
    IN  [ok |-> /\ pic.hasBlip
                /\ ~GetParentRaises(pic)
                /\ pic.anchor.present
                /\ target # <<>>,
         k  |-> BaseName(target),
         v  |-> [from_col |-> pic.anchor.from_col, to_col |-> pic.anchor.to_col,
                 from_row |-> pic.anchor.from_row, to_row |-> pic.anchor.to_row]]

\* the position map {filename -> box} of the sheet
GetFloatingImagePositions(p, sheet_name) ==
    LET sheet_index  == SheetIndex(p, sheet_name)
        drawing_path == IF sheet_index = 0 THEN <<>> ELSE DrawingPath(p, sheet_index)
    IN  IF drawing_path = <<>> \/ ~HasPart(p, drawing_path) THEN <<>>
        ELSE LET pics == Part(p, drawing_path).pics
             IN  DictOf([i \in DOMAIN pics |-> PicAssign(p, drawing_path, pics[i])])

\* ------------------------------------------------------------------------
\* extract_column_images: the column specification
\* ------------------------------------------------------------------------
StripAll(pieces) == [i \in DOMAIN pieces |-> Strip(pieces[i])]

\* the parse raises ValueError: a range that does not split in two, or a
\* range end that is no column name
ParseRaises(columns) ==
    /\ ~Contains(columns, <<",">>)
    /\ Contains(columns, <<"-">>)
    /\ LET pieces == Split(columns, "-")
       IN  \/ Len(pieces) # 2
           \/ ColumnIndexFromString(Strip(pieces[1])) = 0
           \/ ColumnIndexFromString(Strip(pieces[2])) = 0

\* mutant of ParseColumns: the range stops before its end column
ParseColumnsExclusiveEnd(columns) ==
    IF Contains(columns, <<",">>) THEN StripAll(Split(columns, ","))
    ELSE IF Contains(columns, <<"-">>)
    THEN LET pieces    == Split(columns, "-")
             start_idx == ColumnIndexFromString(Strip(pieces[1]))
             end_idx   == ColumnIndexFromString(Strip(pieces[2]))
         IN  [n \in 1..(end_idx - start_idx) |-> GetColumnLetter(start_idx + n - 1)]
    ELSE <<Strip(columns)>>

\* mutant of ParseColumns: the range form is tried before the list form
ParseColumnsDashFirst(columns) ==
    IF Contains(columns, <<"-">>)
    THEN LET pieces    == Split(columns, "-")
             start_idx == ColumnIndexFromString(Strip(pieces[1]))
             end_idx   == ColumnIndexFromString(Strip(pieces[2]))
         IN  [n \in 1..(end_idx + 1 - start_idx) |-> GetColumnLetter(start_idx + n - 1)]
    ELSE IF Contains(columns, <<",">>) THEN StripAll(Split(columns, ","))
    ELSE <<Strip(columns)>>

\* column_list
ParseColumns(columns) ==
    IF Contains(columns, <<",">>) THEN StripAll(Split(columns, ","))
    ELSE IF Contains(columns, <<"-">>)
    THEN LET pieces    == Split(columns, "-")
             start_idx == ColumnIndexFromString(Strip(pieces[1]))
             end_idx   == ColumnIndexFromString(Strip(pieces[2]))
         IN  [n \in 1..(end_idx + 1 - start_idx) |-> GetColumnLetter(start_idx + n - 1)]
    ELSE <<Strip(columns)>>

\* all_ids of extract_column_images: one scan per listed column, concatenated
RECURSIVE ScanColumns(_, _)
ScanColumns(ws, column_list) ==
    IF column_list = <<>> THEN <<>>
    ELSE ExtractDispimgIds(ws, Head(column_list)) \o ScanColumns(ws, Tail(column_list))

\* all_ids of extract_workbook_images: every worksheet in workbook order
RECURSIVE ScanWorkbook(_)
ScanWorkbook(sheets) ==
    IF sheets = <<>> THEN <<>>
    ELSE ExtractDispimgIds(Head(sheets), <<>>) \o ScanWorkbook(Tail(sheets))

\* target_col_indices: 0-based indexes of the listed columns
TargetColIndices(column_list) ==
    {ColumnIndexFromString(column_list[i]) - 1 : i \in DOMAIN column_list}

\* set(range(from_col, to_col + 1)).intersection(target_col_indices) is not empty
Intersects(pos, target_col_indices) ==
    (pos.from_col .. pos.to_col) \cap target_col_indices # {}

\* ------------------------------------------------------------------------
\* Running the extraction operations
\* ------------------------------------------------------------------------
VARIABLES
    pkg,    \* the package file at xlsx_path; never written
    plan,   \* the arguments of the calls that are made, in the order they start
    call,   \* per call: its position (pc) and its local variables
    threads,\* the calls run in worker threads that may overlap
    dirs,   \* the output directory exists
    files   \* the files of the output directory: path -> bytes

vars == <<pkg, plan, threads, call, dirs, files>>

OutputDir == <<"/", "o", "u", "t">>

\* os.path.abspath(os.path.join(output_dir, name))
OutFile(name) == OutputDir \o <<"/">> \o name

\* custom_naming_func(base, row_data, sequence_num): generate_custom_filename
\* in combination mode with prefix 'n', no date and a sequence of one digit,
\* the parts joined by '_'
CustomNamingFunc(base, row_data, sequence_num) == <<"n", "_">> \o Str(sequence_num)

\* mutant of EmbeddedOutFile: the '.png' extension is not appended
EmbeddedOutFileNoExt(args, img_id, sequence_counter) ==
    IF args.naming
    THEN OutFile(CustomNamingFunc(img_id, <<>>, sequence_counter))
    ELSE OutFile(img_id)

\* out_file of an embedded image
EmbeddedOutFile(args, img_id, sequence_counter) ==
    IF args.naming
    THEN OutFile(CustomNamingFunc(img_id, <<>>, sequence_counter) \o PngExt)
    ELSE OutFile(img_id \o PngExt)

\* mutant of FloatingOutFile: the floating phase numbers its files from 1
FloatingOutFileRestart(args, filename, sequence_counter) ==
    LET ext      == SplitExt(filename)[2]
        file_ext == IF ext = <<>> THEN PngExt ELSE ext
    IN  IF args.naming
        THEN OutFile(CustomNamingFunc(SplitExt(filename)[1], <<>>, 1) \o file_ext)
        ELSE OutFile(FloatPrefix \o filename)

\* out_file of a floating image: the original extension is kept
FloatingOutFile(args, filename, sequence_counter) ==
    LET ext      == SplitExt(filename)[2]
        file_ext == IF ext = <<>> THEN PngExt ELSE ext
    IN  IF args.naming
        THEN OutFile(CustomNamingFunc(SplitExt(filename)[1], <<>>, sequence_counter) \o file_ext)
        ELSE OutFile(FloatPrefix \o filename)

\* mutant of WriteFile: the file is opened to append ('ab')
WriteFileAppend(fs, out_file, img_data) ==
    [f \in DOMAIN fs \cup {out_file} |->
        IF f = out_file THEN (IF f \in DOMAIN fs THEN fs[f] \o img_data ELSE img_data)
        ELSE fs[f]]

\* with open(out_file, 'wb') as f: f.write(img_data)
WriteFile(fs, out_file, img_data) ==
    [f \in DOMAIN fs \cup {out_file} |-> IF f = out_file THEN img_data ELSE fs[f]]

\* the local variables of a call before it starts
IdleCall ==
    [pc |-> "idle", ws |-> 0, column_list |-> <<>>, all_ids |-> <<>>,
     embedded_images |-> <<>>, floating_images |-> <<>>, floating_positions |-> <<>>,
     pending |-> {}, next_floating |-> 1, saved |-> <<>>, sequence_counter |-> 1,
     zip_open |-> FALSE, handles |-> 0, made_dir |-> FALSE, error |-> "",
     returned_none |-> FALSE, row_id |-> <<>>, row_ws |-> 0, row_data |-> <<>>,
     files_at_end |-> <<>>, worker |-> "idle", dialogs |-> <<>>]

Terminated(c) == call[c].pc \in {"done", "raised"}

\* zipfile.ZipFile(xlsx_path, 'r'): one more archive handle is open
Acquire(rec) == [rec EXCEPT !.handles = rec.handles + 1]

\* the end of a with-block: its archive handle is closed
Release(rec) == [rec EXCEPT !.handles = rec.handles - 1]

\* mutant of ReleaseOnExit: the archives are opened outside a with-block
ReleaseOnExitLeak(rec) == rec

\* the function is left, by return or by an exception, from inside its
\* with-blocks: each of them closes its archive handle
ReleaseOnExit(rec) == [rec EXCEPT !.handles = 0, !.zip_open = FALSE]

\* the exception leaves the function
Raise(c, exc) ==
    /\ call' = [call EXCEPT ![c] = [ReleaseOnExit(call[c]) EXCEPT
                                       !.pc = "raised", !.error = exc, !.files_at_end = files]]
    /\ UNCHANGED <<pkg, plan, threads, dirs, files>>

\* what opening an unreadable package raises
OpenError(p) == IF p.kind = "missing" THEN "FileNotFoundError" ELSE "BadZipFile"

\* ------------------------------------------------------------------------
\* gui.py: the extraction worker of the window
\* ------------------------------------------------------------------------

\* int(text) of a text of decimal digits; -1 stands for its ValueError
RECURSIVE ParseInt(_)
ParseInt(text) ==
    IF text = <<>> \/ \E i \in DOMAIN text : \A d \in 0..9 : Str(d) # <<text[i]>> THEN -1
    ELSE LET d == CHOOSE v \in 0..9 : Str(v) = <<text[Len(text)]>>
         IN  IF Len(text) = 1 THEN d ELSE 10 * ParseInt(SubSeq(text, 1, Len(text) - 1)) + d

\* validate_inputs raises ValueError.  The naming settings are those of
\* CustomNamingFunc: combination mode with a sequence number and no date
ValidateRaises(p, args) ==
    \/ args.gui.xlsx_path = <<>>
    \/ p.kind = "missing"
    \/ args.gui.output_dir = <<>>
    \/ args.op \in {"sheet", "column"} /\ args.sheet_name = ""
    \/ args.op = "column" /\ args.columns = <<>>
    \/ args.op = "id" /\ args.image_id = <<>>
    \/ args.naming /\ ParseInt(args.gui.sequence_digits) \notin 1..10

\* mutant of Caught: the worker's handler is written except ValueError
CaughtValueErrorOnly(exc) == exc = "ValueError"

\* except Exception: every exception class but those that derive from
\* BaseException only
Caught(exc) == exc \notin {"KeyboardInterrupt", "SystemExit", "GeneratorExit"}

\* the worker has nothing more to do
WorkerOver(c) == call[c].worker \in {"ended", "escaped"}

\* the calls before c in the plan allow c to start: each has ended, or, when
\* the calls run in worker threads, has started
MayStart(c) ==
    \A d \in DOMAIN call :
        d < c => IF threads THEN call[d].pc # "idle" \/ call[d].worker # "idle"
                 ELSE IF plan[d].gui.on THEN WorkerOver(d) ELSE Terminated(d)

\* the handler of the worker: log the error and schedule the error dialog
\* with root.after; an exception the handler does not catch leaves the thread
Handle(rec, exc) ==
    IF Caught(exc)
    THEN [rec EXCEPT !.worker = "ended", !.dialogs = Append(rec.dialogs, "error")]
    ELSE [rec EXCEPT !.worker = "escaped"]

\* start_extraction spawns the worker, extract_images enters its try block
\* and calls validate_inputs
ValidateInputs(c) ==
    /\ plan[c].gui.on
    /\ call[c].worker = "idle"
    /\ MayStart(c)
    /\ call' = [call EXCEPT ![c] = IF ValidateRaises(pkg, plan[c])
                                   THEN Handle(call[c], "ValueError")
                                   ELSE [call[c] EXCEPT !.worker = "validated"]]
    /\ UNCHANGED <<pkg, plan, threads, dirs, files>>

\* the core operation has returned or raised inside the try block of
\* extract_images: the success or the warning dialog is scheduled on
\* saved_files, or the handler runs
ScheduleDialog(c) ==
    /\ plan[c].gui.on
    /\ call[c].worker = "validated"
    /\ Terminated(c)
    /\ call' = [call EXCEPT ![c] =
                   IF call[c].pc = "raised" THEN Handle(call[c], call[c].error)
                   ELSE [call[c] EXCEPT
                            !.worker = "ended",
                            !.dialogs = Append(call[c].dialogs,
                                               IF call[c].saved # <<>> THEN "success"
                                               ELSE "warning")]]
    /\ UNCHANGED <<pkg, plan, threads, dirs, files>>

\* a caller invokes the operation plan[c]; calls start in plan order, each
\* after the one before it has ended unless the calls run in worker threads;
\* the worker of the window calls it once validate_inputs has returned
Call(c) ==
    /\ call[c].pc = "idle"
    /\ IF plan[c].gui.on THEN call[c].worker = "validated" ELSE MayStart(c)
    /\ call' = [call EXCEPT ![c].pc = IF plan[c].op = "id" THEN "map" ELSE "load"]
    /\ UNCHANGED <<pkg, plan, threads, dirs, files>>

\* load_workbook, the worksheet lookup, the column parse and the cell scan
LoadRaises(p, args) ==
    IF ~Readable(p) THEN OpenError(p)
    ELSE IF args.op = "workbook" THEN ""
    ELSE IF SheetIndex(p, args.sheet_name) = 0 THEN "KeyError"
    ELSE IF args.op = "sheet" THEN ""
    ELSE IF ParseRaises(args.columns) THEN "ValueError"
    ELSE IF \E i \in DOMAIN ParseColumns(args.columns) :
                ScanRaises(ParseColumns(args.columns)[i]) THEN "ValueError"
    ELSE ""

Load(c) ==
    LET args == plan[c]
        exc  == LoadRaises(pkg, args)
        ws   == IF args.op = "workbook" THEN 0 ELSE SheetIndex(pkg, args.sheet_name)
        cols == IF args.op = "column" THEN ParseColumns(args.columns) ELSE <<>>
        ids  == IF args.op = "workbook" THEN ScanWorkbook(pkg.sheets)
                ELSE IF args.op = "sheet" THEN ExtractDispimgIds(pkg.sheets[ws], <<>>)
                ELSE ScanColumns(pkg.sheets[ws], cols)
        parsed == /\ Readable(pkg) /\ args.op = "column" /\ ws # 0
                  /\ ~ParseRaises(args.columns)
    IN  /\ call[c].pc = "load"
        /\ IF exc # "" /\ parsed
           THEN \* the scan of a listed column raises: column_list is built
                /\ call' = [call EXCEPT ![c] = [ReleaseOnExit(call[c]) EXCEPT
                                                  !.pc = "raised", !.error = exc, !.ws = ws,
                                                  !.column_list = cols,
                                                  !.files_at_end = files]]
                /\ UNCHANGED <<pkg, plan, threads, dirs, files>>
           ELSE IF exc # "" THEN Raise(c, exc)
           ELSE /\ call' = [call EXCEPT ![c].pc = "map", ![c].ws = ws,
                                        ![c].column_list = cols, ![c].all_ids = ids]
                /\ UNCHANGED <<pkg, plan, threads, dirs, files>>

\* mutant of MapRaises: the resolver's KeyError is not caught
MapRaisesKeyError(p) ==
    IF ~Readable(p) THEN OpenError(p) ELSE IF ManifestMissing(p) THEN "KeyError" ELSE ""

\* mutant of MapRaises: every exception is caught, also the archive's
MapRaisesNothing(p) == ""

\* _get_all_images_map raises only what opening the archive raises: the
\* resolver's KeyError is caught
MapRaises(p) == IF ~Readable(p) THEN OpenError(p) ELSE ""

\* _get_all_images_map is entered: the resolver opens the archive in its
\* with-block, or the open raises
GetAllImagesMap(c) ==
    /\ call[c].pc = "map"
    /\ IF MapRaises(pkg) # "" THEN Raise(c, MapRaises(pkg))
       ELSE /\ call' = [call EXCEPT ![c] = [Acquire(call[c]) EXCEPT !.pc = "resolve"]]
            /\ UNCHANGED <<pkg, plan, threads, dirs, files>>

\* the resolver's with-block is left, by the KeyError of a missing manifest
\* part (caught by _get_all_images_map) or after the two parts are read; then
\* _extract_floating_images lists the media inside a with-block of its own
ResolveImages(c) ==
    /\ call[c].pc = "resolve"
    /\ call' = [call EXCEPT ![c] = [Release(call[c]) EXCEPT
                                       !.pc = "mkdir",
                                       !.embedded_images = EmbeddedImages(pkg),
                                       !.floating_images = ExtractFloatingImages(pkg)]]
    /\ UNCHANGED <<pkg, plan, threads, dirs, files>>

\* os.makedirs(output_dir, exist_ok=True)
MakeDirs(c) ==
    /\ call[c].pc = "mkdir"
    /\ dirs' = TRUE
    /\ call' = [call EXCEPT ![c].pc = "open", ![c].made_dir = TRUE]
    /\ UNCHANGED <<pkg, plan, threads, files>>

\* with zipfile.ZipFile(xlsx_path, 'r') as z; set(all_ids) is built
OpenArchive(c) ==
    /\ call[c].pc = "open"
    /\ call' = [call EXCEPT ![c] = [Acquire(call[c]) EXCEPT
                                       !.pc = IF plan[c].op = "id" THEN "byid" ELSE "embedded",
                                       !.zip_open = TRUE,
                                       !.pending = Range(call[c].all_ids)]]
    /\ UNCHANGED <<pkg, plan, threads, dirs, files>>

\* mutant of Resolved: the membership test is dropped
ResolvedAlways(embedded_images, img_id) == TRUE

\* mutant of Resolved: the name of a picture file counts as resolved
ResolvedOrFileName(embedded_images, img_id) ==
    img_id \in DOMAIN embedded_images \/ EndsWith(img_id, PngExt)

\* mutant of Resolved: an identifier whose target is no archive entry is
\* taken as unresolved
ResolvedInArchive(embedded_images, img_id) ==
    /\ img_id \in DOMAIN embedded_images
    /\ HasPart(pkg, XlPrefix \o embedded_images[img_id])

\* img_id in embedded_images
Resolved(embedded_images, img_id) == img_id \in DOMAIN embedded_images

\* 'xl/' + embedded_images[img_id]
ImgInternal(embedded_images, img_id) ==
    XlPrefix \o (IF img_id \in DOMAIN embedded_images THEN embedded_images[img_id] ELSE <<>>)

\* mutant of SkipUnresolved: the sequence counter advances all the same
SkipUnresolvedCounting(rec, img_id) ==
    [rec EXCEPT !.pending = rec.pending \ {img_id},
                !.sequence_counter = rec.sequence_counter + 1]

\* the call's state after an identifier that is not in embedded_images
SkipUnresolved(rec, img_id) == [rec EXCEPT !.pending = rec.pending \ {img_id}]

\* mutant of SaveEmbedded: saved is one list at module level, shared by the calls
RECURSIVE SavedOfCalls(_)
SavedOfCalls(n) == IF n = 0 THEN <<>> ELSE SavedOfCalls(n - 1) \o call[n].saved

SaveEmbeddedShared(rec, img_id, out_file) ==
    [rec EXCEPT !.pending = rec.pending \ {img_id},
                !.saved = Append(SavedOfCalls(Len(call)), out_file),
                !.sequence_counter = rec.sequence_counter + 1]

\* mutant of SaveEmbedded: the path of the written file is not listed
SaveEmbeddedUnlisted(rec, img_id, out_file) ==
    [rec EXCEPT !.pending = rec.pending \ {img_id},
                !.sequence_counter = rec.sequence_counter + 1]

\* the call's state after an embedded image is saved
SaveEmbedded(rec, img_id, out_file) ==
    [rec EXCEPT !.pending = rec.pending \ {img_id},
                !.saved = Append(rec.saved, out_file),
                !.sequence_counter = rec.sequence_counter + 1]

\* the lookup made for the naming callback is kept with the call
NoteRowContext(rec, args, ctx) ==
    IF args.naming
    THEN [rec EXCEPT !.row_id = ctx.id, !.row_ws = ctx.ws, !.row_data = ctx.data]
    ELSE rec

\* one iteration of: for img_id in set(all_ids); the set is iterated in an
\* order that is not specified
ExtractEmbedded(c) ==
    /\ call[c].pc = "embedded"
    /\ \E img_id \in call[c].pending :
          LET rec          == call[c]
              img_internal == ImgInternal(rec.embedded_images, img_id)
              out_file     == EmbeddedOutFile(plan[c], img_id, rec.sequence_counter)
          IN  IF ~Resolved(rec.embedded_images, img_id)
              THEN /\ call' = [call EXCEPT ![c] = SkipUnresolved(rec, img_id)]
                   /\ UNCHANGED <<pkg, plan, threads, dirs, files>>
              ELSE IF ~HasPart(pkg, img_internal)
              THEN Raise(c, "KeyError")
              ELSE /\ files' = WriteFile(files, out_file, Part(pkg, img_internal).bytes)
                   /\ call' = [call EXCEPT ![c] =
                          NoteRowContext(SaveEmbedded(rec, img_id, out_file), plan[c],
                                         RowContext(pkg, plan[c], rec.ws, rec.column_list, img_id))]
                   /\ UNCHANGED <<pkg, plan, threads, dirs>>

\* computing target_col_indices raises ValueError
TargetsRaise(column_list) ==
    \E i \in DOMAIN column_list : ColumnIndexFromString(column_list[i]) = 0

\* mutant of EndEmbedded: the floating phase is entered whatever the flag is
EndEmbeddedAlwaysFloating(c) ==
    LET args == plan[c]
    IN  /\ call[c].pc = "embedded"
        /\ call[c].pending = {}
        /\ IF FALSE
           THEN /\ call' = [call EXCEPT ![c].pc = "return"]
                /\ UNCHANGED <<pkg, plan, threads, dirs, files>>
           ELSE IF args.op = "workbook"
           THEN /\ call' = [call EXCEPT ![c].pc = "floating", ![c].next_floating = 1]
                /\ UNCHANGED <<pkg, plan, threads, dirs, files>>
           ELSE /\ call' = [call EXCEPT ![c] = [Acquire(call[c]) EXCEPT !.pc = "positions"]]
                /\ UNCHANGED <<pkg, plan, threads, dirs, files>>

\* the embedded loop is over: return, or enter the floating phase; sheet and
\* column first call _get_floating_image_positions, which opens the archive
\* once more in a with-block of its own
EndEmbedded(c) ==
    LET args == plan[c]
    IN  /\ call[c].pc = "embedded"
        /\ call[c].pending = {}
        /\ IF ~args.include_floating
           THEN /\ call' = [call EXCEPT ![c].pc = "return"]
                /\ UNCHANGED <<pkg, plan, threads, dirs, files>>
           ELSE IF args.op = "workbook"
           THEN /\ call' = [call EXCEPT ![c].pc = "floating", ![c].next_floating = 1]
                /\ UNCHANGED <<pkg, plan, threads, dirs, files>>
           ELSE /\ call' = [call EXCEPT ![c] = [Acquire(call[c]) EXCEPT !.pc = "positions"]]
                /\ UNCHANGED <<pkg, plan, threads, dirs, files>>

\* _get_floating_image_positions returns the position map and its with-block
\* closes the archive; extract_column_images then computes target_col_indices
Positions(c) ==
    LET args == plan[c]
        rec  == [Release(call[c]) EXCEPT
                    !.floating_positions = GetFloatingImagePositions(pkg, args.sheet_name)]
    IN  /\ call[c].pc = "positions"
        /\ IF args.op = "column" /\ TargetsRaise(call[c].column_list)
           THEN /\ call' = [call EXCEPT ![c] = [ReleaseOnExit(rec) EXCEPT
                                                  !.pc = "raised", !.error = "ValueError",
                                                  !.files_at_end = files]]
                /\ UNCHANGED <<pkg, plan, threads, dirs, files>>
           ELSE /\ call' = [call EXCEPT ![c] = [rec EXCEPT !.pc = "floating",
                                                            !.next_floating = 1]]
                /\ UNCHANGED <<pkg, plan, threads, dirs, files>>

\* mutant of ShouldInclude: a column call drops an image without position
ShouldIncludeOnlyPositioned(op, filename, floating_positions, column_list) ==
    IF op = "workbook" THEN TRUE
    ELSE IF op = "sheet" THEN filename \in DOMAIN floating_positions
    ELSE IF filename \in DOMAIN floating_positions
         THEN Intersects(floating_positions[filename], TargetColIndices(column_list))
         ELSE FALSE

\* mutant of ShouldInclude: a workbook call also filters by anchor
ShouldIncludeWorkbookFiltered(op, filename, floating_positions, column_list) ==
    filename \in DOMAIN floating_positions

\* the filter of the floating loop
ShouldInclude(op, filename, floating_positions, column_list) ==
    IF op = "workbook" THEN TRUE
    ELSE IF op = "sheet" THEN filename \in DOMAIN floating_positions
    ELSE IF filename \in DOMAIN floating_positions
         THEN Intersects(floating_positions[filename], TargetColIndices(column_list))
         ELSE TRUE

\* one iteration of: for filename, internal_path in floating_images.items()
ExtractFloating(c) ==
    LET rec      == call[c]
        item     == rec.floating_images[rec.next_floating]
        out_file == FloatingOutFile(plan[c], item.filename, rec.sequence_counter)
    IN  /\ rec.pc = "floating"
        /\ rec.next_floating <= Len(rec.floating_images)
        /\ IF ShouldInclude(plan[c].op, item.filename, rec.floating_positions, rec.column_list)
           THEN /\ files' = WriteFile(files, out_file,
                                      Part(pkg, XlPrefix \o item.internal_path).bytes)
                /\ call' = [call EXCEPT ![c].next_floating = rec.next_floating + 1,
                                        ![c].saved = Append(rec.saved, out_file),
                                        ![c].sequence_counter = rec.sequence_counter + 1]
                /\ UNCHANGED <<pkg, plan, threads, dirs>>
           ELSE /\ call' = [call EXCEPT ![c].next_floating = rec.next_floating + 1]
                /\ UNCHANGED <<pkg, plan, threads, dirs, files>>

EndFloating(c) ==
    /\ call[c].pc = "floating"
    /\ call[c].next_floating > Len(call[c].floating_images)
    /\ call' = [call EXCEPT ![c].pc = "return"]
    /\ UNCHANGED <<pkg, plan, threads, dirs, files>>

\* the with-block closes the archive; return saved
Return(c) ==
    /\ call[c].pc = "return"
    /\ call' = [call EXCEPT ![c] = [ReleaseOnExit(call[c]) EXCEPT
                                       !.pc = "done", !.files_at_end = files]]
    /\ UNCHANGED <<pkg, plan, threads, dirs, files>>

\* extract_image_by_id, inside its with-block
ExtractById(c) ==
    LET rec          == call[c]
        image_id     == plan[c].image_id
        img_internal == ImgInternal(rec.embedded_images, image_id)
        out_file     == EmbeddedOutFile(plan[c], image_id, 1)
    IN  /\ rec.pc = "byid"
        /\ IF ~Resolved(rec.embedded_images, image_id)
           THEN /\ call' = [call EXCEPT ![c] = [ReleaseOnExit(rec) EXCEPT
                                                  !.pc = "done", !.returned_none = TRUE,
                                                  !.files_at_end = files]]
                /\ UNCHANGED <<pkg, plan, threads, dirs, files>>
           ELSE IF ~HasPart(pkg, img_internal)
           THEN Raise(c, "KeyError")
           ELSE /\ files' = WriteFile(files, out_file, Part(pkg, img_internal).bytes)
                /\ call' = [call EXCEPT ![c] =
                       [ReleaseOnExit(NoteRowContext(rec, plan[c],
                                          RowContext(pkg, plan[c], 0, <<>>, image_id)))
                           EXCEPT !.pc = "done", !.saved = <<out_file>>,
                                  !.files_at_end = files']]
                /\ UNCHANGED <<pkg, plan, threads, dirs>>

Next ==
    \/ \E c \in DOMAIN call : Call(c)
    \/ \E c \in DOMAIN call : Load(c)
    \/ \E c \in DOMAIN call : GetAllImagesMap(c)
    \/ \E c \in DOMAIN call : ResolveImages(c)
    \/ \E c \in DOMAIN call : MakeDirs(c)
    \/ \E c \in DOMAIN call : OpenArchive(c)
    \/ \E c \in DOMAIN call : ExtractEmbedded(c)
    \/ \E c \in DOMAIN call : EndEmbedded(c)
    \/ \E c \in DOMAIN call : Positions(c)
    \/ \E c \in DOMAIN call : ExtractFloating(c)
    \/ \E c \in DOMAIN call : EndFloating(c)
    \/ \E c \in DOMAIN call : Return(c)
    \/ \E c \in DOMAIN call : ExtractById(c)
    \/ \E c \in DOMAIN call : ValidateInputs(c)
    \/ \E c \in DOMAIN call : ScheduleDialog(c)

\* ------------------------------------------------------------------------
\* Inputs: packages, and arguments of calls
\* ------------------------------------------------------------------------
ID1 == <<"I", "D", "_", "1">>
ID2 == <<"I", "D", "_", "2">>
ID3 == <<"F", "L", "O", "A", "T", "_", "m", "1">>
ID4 == <<"I", "D", "_", "4">>
M1 == <<"m", "1", ".", "p", "n", "g">>
M2 == <<"m", "2", ".", "p", "n", "g">>
MediaM1 == <<"m", "e", "d", "i", "a", "/", "m", "1", ".", "p", "n", "g">>
MediaM2 == <<"m", "e", "d", "i", "a", "/", "m", "2", ".", "p", "n", "g">>
MediaGone == <<"m", "e", "d", "i", "a", "/", "g", "o", "n", "e", ".", "p", "n", "g">>
Sheet1Rels == <<"x", "l", "/", "w", "o", "r", "k", "s", "h", "e", "e", "t", "s", "/", "_", "r", "e", "l", "s", "/", "s", "h", "e", "e", "t", "1", ".", "x", "m", "l", ".", "r", "e", "l", "s">>
RelDrawingStd == <<".", ".", "/", "d", "r", "a", "w", "i", "n", "g", "s", "/", "d", "r", "a", "w", "i", "n", "g", "1", ".", "x", "m", "l">>
RelDrawingFlat == <<"d", "r", "a", "w", "i", "n", "g", "s", "/", "d", "r", "a", "w", "i", "n", "g", "1", ".", "x", "m", "l">>
DrawingPart == <<"x", "l", "/", "d", "r", "a", "w", "i", "n", "g", "s", "/", "d", "r", "a", "w", "i", "n", "g", "1", ".", "x", "m", "l">>
DrawingRelsStd == <<"x", "l", "/", "d", "r", "a", "w", "i", "n", "g", "s", "/", "_", "r", "e", "l", "s", "/", "d", "r", "a", "w", "i", "n", "g", "1", ".", "x", "m", "l", ".", "r", "e", "l", "s">>
DrawingRelsFlat == <<"x", "l", "/", "d", "r", "a", "w", "i", "n", "g", "s", "/", "d", "r", "a", "w", "i", "n", "g", "1", ".", "x", "m", "l", ".", "r", "e", "l", "s">>
RelMediaUp == <<".", ".", "/", "m", "e", "d", "i", "a", "/", "m", "1", ".", "p", "n", "g">>
RelMediaUp2 == <<".", ".", "/", "m", "e", "d", "i", "a", "/", "m", "2", ".", "p", "n", "g">>

\* cell values
Disp(id) == Marker \o Quote \o id \o Quote \o <<",", "1", ")">>
QuotedBefore(id) == <<"s", "e", "e", " ">> \o Quote \o <<"x">> \o Quote \o <<" ">> \o Disp(id)
PlainText == <<"h", "i">>
Empty == <<>>

NoAnchor == [present |-> FALSE, from_col |-> 0, to_col |-> 0, from_row |-> 0, to_row |-> 0]
Anchor(fc, tc) == [present |-> TRUE, from_col |-> fc, to_col |-> tc, from_row |-> 0, to_row |-> 3]
Pic(name, embed, anchor) == [name |-> name, hasBlip |-> TRUE, embed |-> embed, anchor |-> anchor]
PicNoBlip == [name |-> <<>>, hasBlip |-> FALSE, embed |-> "", anchor |-> Anchor(5, 5)]
Rel(id, target) == [Id |-> id, Target |-> target]
XmlPart(name, pics, rels) == [name |-> name, bytes |-> <<"xml">>, pics |-> pics, rels |-> rels]
MediaPart(name, bytes) == [name |-> name, bytes |-> bytes, pics |-> <<>>, rels |-> <<>>]

\* the cell-image manifest and its relationships
AllPics == <<Pic(ID1, "rId1", NoAnchor), Pic(ID2, "rId2", NoAnchor), Pic(ID3, "rId3", NoAnchor)>>
FullRels == <<Rel("rId1", MediaM1), Rel("rId2", MediaM2), Rel("rId3", MediaM2)>>
Manifests ==
    [full     |-> <<XmlPart(CellImagesPath, AllPics, <<>>),
                    XmlPart(CellImagesRelsPath, <<>>, FullRels)>>,
     dangling |-> <<XmlPart(CellImagesPath, AllPics, <<>>),
                    XmlPart(CellImagesRelsPath, <<>>,
                            <<Rel("rId1", MediaM1), Rel("rId2", MediaGone), Rel("rId3", MediaM2)>>)>>,
     norel    |-> <<XmlPart(CellImagesPath, AllPics, <<>>),
                    XmlPart(CellImagesRelsPath, <<>>, <<Rel("rId1", MediaM1)>>)>>,
     dupname  |-> <<XmlPart(CellImagesPath,
                            <<Pic(ID1, "rId1", NoAnchor), Pic(ID1, "rId9", NoAnchor),
                              Pic(ID2, "rId2", NoAnchor), Pic(ID2, "rId1", NoAnchor)>>, <<>>),
                    XmlPart(CellImagesRelsPath, <<>>,
                            <<Rel("rId1", MediaM2), Rel("rId1", MediaM1), Rel("rId2", MediaM2)>>)>>,
     noimages |-> <<XmlPart(CellImagesRelsPath, <<>>, FullRels)>>,
     norels   |-> <<XmlPart(CellImagesPath, AllPics, <<>>)>>,
     neither  |-> <<>>]

\* the parts under xl/media.  odd holds a directory entry, two entries of one
\* base filename, a name without extension and a name with two dots
MSubDir == <<"s", "u", "b", "/">>
MRaw == <<"r", "a", "w">>
MJpg == <<"a", ".", "b", ".", "j", "p", "g">>
Medias ==
    [two  |-> <<MediaPart(MediaDir \o M1, <<"png1">>), MediaPart(MediaDir \o M2, <<"png2">>)>>,
     none |-> <<>>,
     odd  |-> <<MediaPart(MediaDir \o MSubDir, <<>>),
                MediaPart(MediaDir \o M1, <<"png1">>),
                MediaPart(MediaDir \o MRaw, <<"raw1">>),
                MediaPart(MediaDir \o MSubDir \o M1, <<"png3">>),
                MediaPart(MediaDir \o MJpg, <<"jpg1">>)>>]

\* the drawing of the first worksheet: m1.png anchored at columns 1..2.
\* std is the layout a spreadsheet program writes, flat has the targets and
\* the relationships part where core.py looks for them; mixed is flat with
\* m1.png anchored twice, a picture whose relationship-id resolves to nothing,
\* a picture without blip, and m2.png anchored at column 3
Drawings ==
    [none |-> <<>>,
     std  |-> <<XmlPart(Sheet1Rels, <<>>, <<Rel("rId1", RelDrawingStd)>>),
                XmlPart(DrawingPart, <<Pic(<<>>, "rId1", Anchor(1, 2))>>, <<>>),
                XmlPart(DrawingRelsStd, <<>>, <<Rel("rId1", RelMediaUp)>>)>>,
     flat |-> <<XmlPart(Sheet1Rels, <<>>, <<Rel("rId1", RelDrawingFlat)>>),
                XmlPart(DrawingPart, <<Pic(<<>>, "rId1", Anchor(1, 2))>>, <<>>),
                XmlPart(DrawingRelsFlat, <<>>, <<Rel("rId1", RelMediaUp)>>)>>,
     mixed |-> <<XmlPart(Sheet1Rels, <<>>, <<Rel("rId1", RelDrawingFlat)>>),
                 XmlPart(DrawingPart,
                         <<Pic(<<>>, "rId1", Anchor(0, 0)), Pic(<<>>, "rId9", Anchor(2, 2)),
                           PicNoBlip, Pic(<<>>, "rId1", Anchor(1, 2)),
                           Pic(<<>>, "rId2", Anchor(3, 3))>>, <<>>),
                 XmlPart(DrawingRelsFlat, <<>>,
                         <<Rel("rId1", RelMediaUp), Rel("rId2", RelMediaUp2)>>)>>]

\* workbooks: the worksheets in workbook order
Workbooks ==
    [grid  |-> << [title |-> "S1",
                   rows  |-> << <<Disp(ID1), PlainText, Empty, Disp(ID3)>>,
                                <<Disp(ID1), Disp(ID2), Disp(ID4), Empty>> >>] >>,
     multi |-> << [title |-> "S1", rows |-> << <<Disp(ID1), Disp(ID2)>> >>],
                  [title |-> "S2", rows |-> << <<Disp(ID2)>>, <<QuotedBefore(ID1)>> >>] >>]

Package(m, w, md, d) ==
    [kind |-> "ok", parts |-> Manifests[m] \o Medias[md] \o Drawings[d], sheets |-> Workbooks[w]]

\* a path that names no file, and a file that is no archive
BadPackages == {[kind |-> k, parts |-> <<>>, sheets |-> <<>>] : k \in {"missing", "corrupt"}}

Packages ==
    {Package(m, w, md, d) : m \in DOMAIN Manifests, w \in DOMAIN Workbooks,
                            md \in {"two", "none"}, d \in DOMAIN Drawings}
    \cup {Package(m, "grid", "odd", d) : m \in {"norel", "neither"}, d \in {"none", "flat"}}
    \cup BadPackages

\* column specifications
ColA == <<"A">>
ColB == <<"B">>
ColD == <<"D">>
ColRange == <<"A", "-", "C">>
ColList == <<"A", ",", "B", ",", "C">>
ColTrailing == <<"A", ",">>
ColReverse == <<"C", "-", "A">>
ColMixed == <<"A", "-", "B", ",", " ", "D">>
ColPadded == <<" ", "b", " ">>
ColTwoDashes == <<"A", "-", "B", "-", "C">>
ColumnSpecs ==
    {ColA, ColB, ColD, ColRange, ColList, ColTrailing, ColReverse, ColMixed, ColPadded, ColTwoDashes}

\* the fields of the window that validate_inputs reads beside the arguments
Form(xlsx_path, output_dir, sequence_digits) ==
    [on |-> TRUE, xlsx_path |-> xlsx_path, output_dir |-> output_dir,
     sequence_digits |-> sequence_digits]

\* a call that is not made by the window
NoGui == [on |-> FALSE, xlsx_path |-> <<>>, output_dir |-> <<>>, sequence_digits |-> <<>>]

XlsxPath == <<"b", ".", "x", "l", "s", "x">>

Args(op, sheet_name, columns, image_id, include_floating, naming) ==
    [op |-> op, sheet_name |-> sheet_name, columns |-> columns, image_id |-> image_id,
     include_floating |-> include_floating, naming |-> naming, gui |-> NoGui]

\* the same arguments read from the window by its worker
FromGui(args, form) == [args EXCEPT !.gui = form]

\* a filled form, and forms with one field that validate_inputs rejects
GoodForm == Form(XlsxPath, OutputDir, <<"1">>)
BadForms ==
    {Form(<<>>, OutputDir, <<"1">>), Form(XlsxPath, <<>>, <<"1">>),
     Form(XlsxPath, OutputDir, <<"0">>), Form(XlsxPath, OutputDir, <<"1", "1">>),
     Form(XlsxPath, OutputDir, <<"x">>)}

\* what the window's worker is started with: the filled form with the fields
\* of each mode, some of them empty, and a workbook run on each other form
GuiFilledArgs ==
    {FromGui(a, GoodForm) :
        a \in {Args("workbook", "", <<>>, <<>>, fl, nm) : fl \in BOOLEAN, nm \in BOOLEAN}
              \cup {Args("sheet", sh, <<>>, <<>>, TRUE, FALSE) : sh \in {"S1", "", "Nope"}}
              \cup {Args("column", "S1", cs, <<>>, TRUE, FALSE) : cs \in {ColA, ColTrailing, <<>>}}
              \cup {Args("column", "", ColA, <<>>, FALSE, FALSE)}
              \cup {Args("id", "", <<>>, id, FALSE, nm) : id \in {ID1, ID2, ID4, <<>>},
                                                          nm \in BOOLEAN}}
GuiBadArgs ==
    {FromGui(Args("workbook", "", <<>>, <<>>, TRUE, nm), f) : nm \in BOOLEAN, f \in BadForms}
GuiArgs == GuiFilledArgs \cup GuiBadArgs

GuiPackages ==
    {Package(m, "grid", "two", "flat") : m \in {"full", "dangling", "neither"}}
    \cup {Package("neither", "grid", "none", "none")}
    \cup BadPackages

WorkbookArgs == {Args("workbook", "", <<>>, <<>>, fl, nm) : fl \in BOOLEAN, nm \in BOOLEAN}
SheetArgs ==
    {Args("sheet", sh, <<>>, <<>>, fl, nm) : sh \in {"S1", "S2", "Nope"}, fl \in BOOLEAN, nm \in BOOLEAN}
ColumnArgs ==
    {Args("column", "S1", cs, <<>>, fl, nm) : cs \in ColumnSpecs, fl \in BOOLEAN, nm \in BOOLEAN}
ByIdArgs ==
    {Args("id", "", <<>>, id, FALSE, nm) : id \in {ID1, ID2, ID3, ID4, M1}, nm \in BOOLEAN}
AllArgs == WorkbookArgs \cup SheetArgs \cup ColumnArgs \cup ByIdArgs

InitWith(packages, plans) ==
    /\ pkg \in packages
    /\ plan \in plans
    /\ threads = FALSE
    /\ call = [c \in DOMAIN plan |-> IdleCall]
    /\ dirs = FALSE
    /\ files = <<>>

\* one call of any operation on any package, or one run of the window's
\* worker, into a directory that does not exist yet
Init ==
    \/ InitWith(Packages, {<<a>> : a \in AllArgs})
    \/ InitWith(GuiPackages, {<<a>> : a \in GuiArgs})

Spec == Init /\ [][Next]_vars

\* ------------------------------------------------------------------------
\* Runs of several calls, one after the other, on the same package and
\* output directory
\* ------------------------------------------------------------------------
Runs == 2

ColBD == <<"B", "-", "D">>
ColBCD == <<"B", ",", "C", ",", "D">>

\* the sequences of the given length over a set of arguments
RECURSIVE Plans(_, _)
Plans(args, n) ==
    IF n = 0 THEN {<<>>}
    ELSE {Append(pl, a) : pl \in Plans(args, n - 1), a \in args}

\* the same operation repeated with the same arguments, or column calls
\* whose specifications name the same columns as a range and as a list
RepeatPlans ==
    UNION {Plans({a}, Runs) :
              a \in {w \in WorkbookArgs : ~w.naming} \cup {Args("id", "", <<>>, ID1, FALSE, FALSE)}}
    \cup UNION {Plans({Args("column", "S1", cs, <<>>, fl, FALSE) : cs \in pair}, Runs) :
                   pair \in {{ColRange, ColList}, {ColBD, ColBCD}}, fl \in BOOLEAN}

RepeatPackages ==
    {Package(m, "grid", "two", d) : m \in {"full", "dangling", "neither"}, d \in {"none", "flat"}}

\* the window's worker run twice on the same form
GuiRepeatPlans ==
    UNION {Plans({FromGui(a, GoodForm)}, Runs) :
              a \in {Args("workbook", "", <<>>, <<>>, TRUE, FALSE),
                     Args("id", "", <<>>, ID1, FALSE, FALSE)}}

InitRepeat == InitWith(RepeatPackages, RepeatPlans \cup GuiRepeatPlans)

SpecRepeat == InitRepeat /\ [][Next]_vars

\* ------------------------------------------------------------------------
\* Calls made from worker threads: the start button of the window spawns a
\* thread per click, so a call may start while another is running
\* ------------------------------------------------------------------------

\* a column without floating images, a column with them, a column whose only
\* identifier is unresolved, and two identifiers by id
ThreadArgs ==
    {Args("column", "S1", ColA, <<>>, FALSE, FALSE),
     Args("column", "S1", ColB, <<>>, TRUE, FALSE),
     Args("column", "S1", <<"C">>, <<>>, FALSE, FALSE),
     Args("id", "", <<>>, ID1, FALSE, FALSE),
     Args("id", "", <<>>, ID2, FALSE, FALSE)}

\* two clicks on the start button
GuiThreadArgs ==
    {FromGui(a, GoodForm) : a \in {Args("column", "S1", ColA, <<>>, FALSE, FALSE),
                                   Args("column", "S1", ColB, <<>>, TRUE, FALSE),
                                   Args("id", "", <<>>, ID2, FALSE, FALSE)}}
    \cup {FromGui(Args("id", "", <<>>, ID1, FALSE, FALSE), Form(XlsxPath, <<>>, <<"1">>))}

ThreadPlans ==
    Plans(ThreadArgs, 1) \cup Plans(ThreadArgs, Runs) \cup Plans(GuiThreadArgs, Runs)

ThreadPackages == {Package(m, "grid", "two", "flat") : m \in {"full", "dangling"}}

InitThreads ==
    /\ pkg \in ThreadPackages
    /\ plan \in ThreadPlans
    /\ threads = TRUE
    /\ call = [c \in DOMAIN plan |-> IdleCall]
    /\ dirs = FALSE
    /\ files = <<>>

SpecThreads == InitThreads /\ [][Next]_vars

\* runs of the window's worker, each on its package: one click on the start
\* button, or two clicks whose workers are interleaved
GuiRun(m, w, md, plans) == {<<Package(m, w, md, "none"), pl>> : pl \in plans}

GuiRuns ==
    GuiRun("neither", "multi", "none",
           {<<FromGui(a, f)>> : a \in {Args("workbook", "", <<>>, <<>>, TRUE, nm) : nm \in BOOLEAN},
                                f \in BadForms \cup {GoodForm}}
           \cup {<<FromGui(a, GoodForm)>> :
                     a \in {Args("sheet", "", <<>>, <<>>, TRUE, FALSE),
                            Args("sheet", "Nope", <<>>, <<>>, TRUE, FALSE),
                            Args("column", "S1", <<>>, <<>>, TRUE, FALSE),
                            Args("column", "S1", ColTrailing, <<>>, TRUE, FALSE),
                            Args("id", "", <<>>, <<>>, FALSE, FALSE)}}
           \cup Plans({FromGui(Args("id", "", <<>>, ID1, FALSE, FALSE), GoodForm),
                       FromGui(Args("id", "", <<>>, ID2, FALSE, FALSE),
                               Form(XlsxPath, <<>>, <<"1">>))}, 2))
    \cup GuiRun("norel", "multi", "two",
                {<<FromGui(a, GoodForm)>> :
                    a \in {Args("workbook", "", <<>>, <<>>, TRUE, FALSE),
                           Args("column", "S1", ColA, <<>>, TRUE, FALSE),
                           Args("id", "", <<>>, ID1, FALSE, FALSE)}})
    \cup GuiRun("dangling", "multi", "two",
                {<<FromGui(Args("workbook", "", <<>>, <<>>, TRUE, FALSE), GoodForm)>>})
    \cup {<<p, <<FromGui(Args("workbook", "", <<>>, <<>>, TRUE, FALSE), GoodForm)>> >> :
              p \in BadPackages}

InitGui ==
    /\ \E r \in GuiRuns : pkg = r[1] /\ plan = r[2]
    /\ threads = TRUE
    /\ call = [c \in DOMAIN plan |-> IdleCall]
    /\ dirs = FALSE
    /\ files = <<>>

\* a thread that can take a step takes it
SpecGui == InitGui /\ [][Next]_vars /\ WF_vars(Next)

\* ------------------------------------------------------------------------
\* Vocabulary of the properties
\* ------------------------------------------------------------------------
Count(seq, x) == Cardinality({i \in DOMAIN seq : seq[i] = x})

\* the identifiers the Cell Scanner yields on some worksheet that are keys
\* of the resolver mapping
ScannedResolved(p) == Range(ScanWorkbook(p.sheets)) \cap DOMAIN EmbeddedImages(p)

EntryPath(p, id) == XlPrefix \o EmbeddedImages(p)[id]

PngFile(id) == OutFile(id \o PngExt)

FloatFile(filename) == OutFile(FloatPrefix \o filename)

\* the base filenames of the media listing
MediaNames(p) == {ExtractFloatingImages(p)[i].filename : i \in DOMAIN ExtractFloatingImages(p)}

\* the bytes of the entry the media listing maps a base filename to
MediaBytes(p, filename) ==
    LET listing == ExtractFloatingImages(p)
        i == CHOOSE j \in DOMAIN listing : listing[j].filename = filename
    IN  Part(p, XlPrefix \o listing[i].internal_path).bytes

C2_ByIdNotFound ==
    \A c \in DOMAIN call :
        (/\ plan[c].op = "id" /\ Readable(pkg) /\ Terminated(c)
         /\ plan[c].image_id \notin DOMAIN EmbeddedImages(pkg)) =>
            /\ call[c].pc = "done"
            /\ call[c].returned_none
            /\ call[c].saved = <<>>
            /\ DOMAIN files = {}

\* C2 witness: such a call has returned None on a package that has the
\* manifest, for an identifier the manifest does not name
C2_Witness ==
    \E c \in DOMAIN call :
        /\ plan[c].op = "id" /\ call[c].pc = "done" /\ call[c].returned_none
        /\ plan[c].image_id \notin DOMAIN EmbeddedImages(pkg)
        /\ ~ManifestMissing(pkg)

\* C3: on the same worksheet, extractColumn with a range X-Y selects the same
\* identifiers and the same 0-based column indexes as extractColumn with the
\* comma list of the columns X..Y, and so saves the same files.
RangeAndList == {<<ColRange, ColList>>, <<ColBD, ColBCD>>}

C3_RangeEqualsList ==
    \A c, d \in DOMAIN call :
        (/\ plan[c].op = "column" /\ plan[d].op = "column"
         /\ plan[c].sheet_name = plan[d].sheet_name
         /\ <<plan[c].columns, plan[d].columns>> \in RangeAndList
         /\ call[c].pc \notin {"idle", "load"}
         /\ call[d].pc \notin {"idle", "load"}) =>
            /\ Range(call[c].all_ids) = Range(call[d].all_ids)
            /\ TargetColIndices(call[c].column_list) = TargetColIndices(call[d].column_list)
            /\ (call[c].pc = "done" /\ call[d].pc = "done") =>
                   Range(call[c].saved) = Range(call[d].saved)

\* C3 witness: a range call and a list call have both returned with files saved
C3_Witness ==
    \E c, d \in DOMAIN call :
        /\ plan[c].op = "column" /\ plan[d].op = "column"
        /\ <<plan[c].columns, plan[d].columns>> \in RangeAndList
        /\ call[c].pc = "done" /\ call[d].pc = "done"
        /\ Cardinality(Range(call[c].all_ids)) >= 2
        /\ Len(call[c].saved) >= 2

\* the floating-image part of a call's result: what follows the paths of the
\* scanned identifiers that are resolved
FloatingSaved(c) ==
    LET n == Cardinality(Range(call[c].all_ids) \cap DOMAIN call[c].embedded_images)
    IN  SubSeq(call[c].saved, n + 1, Len(call[c].saved))

\* the anchors the package holds for a worksheet: the pictures of the drawing
\* part its relationships part names, each with the media file its
\* relationship-id resolves to in the drawing's relationships part
SheetAnchors(p, sheet_index) ==
    IF \/ ~HasPart(p, SheetRelsPrefix \o Str(sheet_index) \o XmlRelsExt)
       \/ ~HasPart(p, DrawingPart)
    THEN {}
    ELSE LET pics == Part(p, DrawingPart).pics
             rs   == (IF HasPart(p, DrawingRelsStd) THEN Part(p, DrawingRelsStd).rels ELSE <<>>)
                     \o (IF HasPart(p, DrawingRelsFlat) THEN Part(p, DrawingRelsFlat).rels ELSE <<>>)
         IN  {[filename |-> BaseName(rs[ij[2]].Target), box |-> pics[ij[1]].anchor] :
                 ij \in {x \in (DOMAIN pics) \X (DOMAIN rs) :
                            /\ pics[x[1]].hasBlip
                            /\ pics[x[1]].anchor.present
                            /\ rs[x[2]].Id = pics[x[1]].embed}}

\* C4 as stated: extractColumn with include-floating writes a floating image
\* whose anchor on the sheet has position data if and only if the column
\* interval of the anchor meets the requested 0-based column indexes.
C4_AsStated ==
    \A c \in DOMAIN call :
        (/\ plan[c].op = "column" /\ plan[c].include_floating /\ ~plan[c].naming
         /\ call[c].pc = "done") =>
            \A a \in SheetAnchors(pkg, call[c].ws) :
                a.filename \in MediaNames(pkg) =>
                    (FloatFile(a.filename) \in Range(FloatingSaved(c))
                        <=> Intersects(a.box, TargetColIndices(call[c].column_list)))

\* the media entries for which the sheet's position map has no entry
NoPosition(p, sheet_name) == MediaNames(p) \ DOMAIN GetFloatingImagePositions(p, sheet_name)

\* C5 as stated: with include-floating, extractColumn and extractSheet both
\* write every media entry that has no entry in the sheet's position map.
C5_AsStated ==
    \A c \in DOMAIN call :
        (/\ plan[c].op \in {"sheet", "column"} /\ plan[c].include_floating /\ ~plan[c].naming
         /\ call[c].pc = "done") =>
            \A f \in NoPosition(pkg, plan[c].sheet_name) :
                FloatFile(f) \in Range(FloatingSaved(c))

\* C5 (amended): with include-floating, extractColumn that returns has written
\* every media entry that has no entry in the sheet's position map, whatever
\* the columns; extractSheet that returns has written none of them.
C5_NoPositionIncludedByColumnOnly ==
    \A c \in DOMAIN call :
        (plan[c].include_floating /\ call[c].pc = "done") =>
            LET nopos == NoPosition(pkg, plan[c].sheet_name)
            IN  /\ plan[c].op = "column" =>
                      /\ Len(FloatingSaved(c)) >= Cardinality(nopos)
                      /\ ~plan[c].naming =>
                             \A f \in nopos : FloatFile(f) \in Range(FloatingSaved(c))
                /\ plan[c].op = "sheet" =>
                      /\ Len(FloatingSaved(c)) = Cardinality(MediaNames(pkg) \ nopos)
                      /\ ~plan[c].naming =>
                             \A f \in nopos : FloatFile(f) \notin Range(FloatingSaved(c))

\* C5 witness: a column call for column D has returned and saved a media entry
\* without position; a sheet call has returned with media in the package
C5_Witness ==
    \E c \in DOMAIN call :
        /\ plan[c].op = "column" /\ plan[c].columns = ColD
        /\ plan[c].include_floating /\ ~plan[c].naming /\ call[c].pc = "done"
        /\ \E f \in NoPosition(pkg, plan[c].sheet_name) : FloatFile(f) \in Range(FloatingSaved(c))

\* the identifier C7 describes: the text between the first pair of double
\* quotes that follow the marker
QuotedAfterMarker(value) ==
    LET m     == Find(value, Marker, 0)
        start == Find(value, Quote, m + Len(Marker)) + 1
        end   == Find(value, Quote, start)
    IN  Slice(value, start, end)

RECURSIVE ClaimedScan(_)
ClaimedScan(cells) ==
    IF cells = <<>> THEN <<>>
    ELSE IF Contains(Head(cells).value, Marker)
         THEN <<QuotedAfterMarker(Head(cells).value)>> \o ClaimedScan(Tail(cells))
         ELSE ClaimedScan(Tail(cells))

\* C7 as stated: for every cell whose text contains the marker the Cell
\* Scanner yields the text between the first pair of double quotes after the
\* marker, also when a double quote precedes the marker.
C7_AsStated ==
    \A c \in DOMAIN call :
        (plan[c].op = "sheet" /\ call[c].ws # 0) =>
            call[c].all_ids = ClaimedScan(CellsOf(pkg.sheets[call[c].ws]))

C8_UnresolvedSkipped ==
    [][\A c \in DOMAIN call :
          \A id \in call[c].pending :
              (id \notin DOMAIN EmbeddedImages(pkg) /\ id \notin call'[c].pending) =>
                  /\ files' = files
                  /\ call'[c].pc = "embedded"
                  /\ call'[c].error = ""
                  /\ call'[c].saved = call[c].saved
                  /\ call'[c].sequence_counter = call[c].sequence_counter
                  /\ call'[c].pending = call[c].pending \ {id}]_vars

\* C8 witness: the embedded loop has consumed an identifier that is not a key
\* of the mapping while another identifier is still to be processed
C8_Witness ==
    \E c \in DOMAIN call :
        /\ call[c].pc = "embedded"
        /\ call[c].pending # {}
        /\ \E id \in Range(call[c].all_ids) \ call[c].pending :
              id \notin DOMAIN EmbeddedImages(pkg)

C10_BadPackageFailsBeforeMakedirs ==
    ~Readable(pkg) =>
        /\ ~dirs
        /\ DOMAIN files = {}
        /\ \A c \in DOMAIN call :
              /\ ~call[c].made_dir
              /\ call[c].pc \in {"idle", "load", "map", "raised"}
              /\ call[c].pc = "raised" => call[c].error = OpenError(pkg)

\* C10 witness: extractById has raised on such a package
C10_Witness ==
    \E c \in DOMAIN call :
        /\ ~Readable(pkg) /\ call[c].pc = "raised" /\ plan[c].op = "id"

\* C11: the result of extractWorkbook, extractSheet and extractColumn lists
\* exactly the paths of the files written, in the order of the writes: a step
\* writes a file if and only if it appends the path of that file to the
\* result; the embedded loop appends embedded paths, the floating loop
\* floating paths, and the embedded loop never runs after the floating loop.
C11_ResultListsWrites ==
    [][\A c \in DOMAIN call :
          plan[c].op # "id" =>
              LET rec == call[c]
                  nxt == call'[c]
              IN  /\ rec.pc = "floating" => nxt.pc \in {"floating", "return", "raised"}
                  /\ \/ nxt.saved = rec.saved /\ files' = files
                     \/ /\ Len(nxt.saved) = Len(rec.saved) + 1
                        /\ SubSeq(nxt.saved, 1, Len(rec.saved)) = rec.saved
                        /\ LET path == nxt.saved[Len(nxt.saved)]
                           IN  /\ DOMAIN files' = DOMAIN files \cup {path}
                               /\ \A f \in DOMAIN files \ {path} : files'[f] = files[f]
                               /\ rec.pc \in {"embedded", "floating"}
                               /\ rec.pc = "embedded" =>
                                      \E id \in rec.pending \cap DOMAIN rec.embedded_images :
                                          /\ path = EmbeddedOutFile(plan[c], id, rec.sequence_counter)
                                          /\ HasPart(pkg, EntryPath(pkg, id))
                                          /\ files'[path] = Part(pkg, EntryPath(pkg, id)).bytes
                               /\ rec.pc = "floating" =>
                                      LET item == rec.floating_images[rec.next_floating]
                                      IN  /\ path = FloatingOutFile(plan[c], item.filename,
                                                                    rec.sequence_counter)
                                          /\ files'[path] = MediaBytes(pkg, item.filename)]_vars

\* C11 witness: a call has returned a result of embedded paths followed by
\* floating paths
C11_Witness ==
    \E c \in DOMAIN call :
        /\ plan[c].op # "id" /\ call[c].pc = "done"
        /\ Len(FloatingSaved(c)) >= 2
        /\ Len(call[c].saved) >= Len(FloatingSaved(c)) + 2
        /\ DOMAIN files = Range(call[c].saved)

\* C12: in extractWorkbook, extractSheet and extractColumn the sequence counter
\* is the number of files written so far plus 1, and with a naming callback
\* the k-th written file, embedded or floating, is named by the callback's
\* result for sequence number k.
C12_SequenceNumbers ==
    \A c \in DOMAIN call :
        plan[c].op # "id" =>
            /\ call[c].sequence_counter = Len(call[c].saved) + 1
            /\ plan[c].naming =>
                   \A k \in DOMAIN call[c].saved :
                       \E ext \in {PngExt} \cup {SplitExt(f)[2] : f \in MediaNames(pkg)} :
                           call[c].saved[k] = OutFile(CustomNamingFunc(<<>>, <<>>, k) \o ext)

\* C12 witness: a call with a naming callback has returned after skipping an
\* unresolved identifier and writing embedded and floating images
C12_Witness ==
    \E c \in DOMAIN call :
        /\ plan[c].op # "id" /\ plan[c].naming /\ call[c].pc = "done"
        /\ Range(call[c].all_ids) \ DOMAIN call[c].embedded_images # {}
        /\ Len(FloatingSaved(c)) >= 2
        /\ Len(call[c].saved) >= Len(FloatingSaved(c)) + 2

\* C13 as stated: extractSheet with include-floating writes a media entry if
\* and only if its filename is a key of the sheet's position map, and so
\* writes every media entry that a complete, resolvable anchor of that
\* sheet's drawing names.
C13_AsStated ==
    \A c \in DOMAIN call :
        (/\ plan[c].op = "sheet" /\ plan[c].include_floating /\ ~plan[c].naming
         /\ call[c].pc = "done") =>
            /\ \A f \in MediaNames(pkg) :
                   FloatFile(f) \in Range(FloatingSaved(c))
                       <=> f \in DOMAIN GetFloatingImagePositions(pkg, plan[c].sheet_name)
            /\ \A a \in SheetAnchors(pkg, call[c].ws) :
                   a.filename \in MediaNames(pkg) => FloatFile(a.filename) \in Range(FloatingSaved(c))

\* C14: extractById writes at most one file, for an identifier that is a key
\* of the resolver mapping, with the bytes of its entry; it returns that one
\* path or None, and the filename of a media entry that is no key of the
\* mapping gives None and no file.
C14_ByIdWritesOnlyEmbedded ==
    \A c \in DOMAIN call :
        plan[c].op = "id" =>
            LET id == plan[c].image_id
            IN  /\ Len(call[c].saved) <= 1
                /\ Cardinality(DOMAIN files) = Len(call[c].saved)
                /\ call[c].floating_positions = <<>> /\ call[c].next_floating = 1
                /\ call[c].saved # <<>> =>
                       /\ id \in DOMAIN EmbeddedImages(pkg)
                       /\ call[c].saved[1] = EmbeddedOutFile(plan[c], id, 1)
                       /\ DOMAIN files = {call[c].saved[1]}
                       /\ files[call[c].saved[1]] = Part(pkg, EntryPath(pkg, id)).bytes
                /\ call[c].pc = "done" => (call[c].returned_none <=> call[c].saved = <<>>)
                /\ (Terminated(c) /\ Readable(pkg) /\ id \in MediaNames(pkg)
                       /\ id \notin DOMAIN EmbeddedImages(pkg)) =>
                       call[c].pc = "done" /\ call[c].returned_none

\* C14 witness: extractById has returned None for the filename of a media entry
C14_Witness ==
    \E c \in DOMAIN call :
        /\ plan[c].op = "id" /\ call[c].pc = "done" /\ call[c].returned_none
        /\ plan[c].image_id \in MediaNames(pkg)
        /\ DOMAIN EmbeddedImages(pkg) # {}

AloneIds(p, args) ==
    LET ws  == SheetIndex(p, args.sheet_name)
        ids == IF args.op = "id" THEN {args.image_id}
               ELSE IF args.op = "workbook" THEN Range(ScanWorkbook(p.sheets))
               ELSE IF args.op = "sheet" THEN Range(ExtractDispimgIds(p.sheets[ws], <<>>))
               ELSE Range(ScanColumns(p.sheets[ws], ParseColumns(args.columns)))
    IN  ids \cap DOMAIN EmbeddedImages(p)

AloneReadRaises(p, args) == \E id \in AloneIds(p, args) : ~HasPart(p, EntryPath(p, id))

\* the error a call ends with before it reads or writes an image, "" for none
AloneError(p, args) ==
    IF args.op = "id" THEN MapRaises(p)
    ELSE IF LoadRaises(p, args) # "" THEN LoadRaises(p, args)
    ELSE IF /\ args.op = "column" /\ args.include_floating
            /\ ~AloneReadRaises(p, args) /\ TargetsRaise(ParseColumns(args.columns))
    THEN "ValueError" ELSE ""

AloneFloating(p, args) ==
    LET positions == IF args.op = "workbook" THEN <<>>
                     ELSE GetFloatingImagePositions(p, args.sheet_name)
        columns   == IF args.op = "column" THEN ParseColumns(args.columns) ELSE <<>>
        Keep(item) == ShouldInclude(args.op, item.filename, positions, columns)
        kept      == IF args.op = "id" \/ ~args.include_floating THEN <<>>
                     ELSE SelectSeq(ExtractFloatingImages(p), Keep)
    IN  [i \in DOMAIN kept |-> FloatFile(kept[i].filename)]

AlonePaths(p, args) ==
    {PngFile(id) : id \in AloneIds(p, args)} \cup Range(AloneFloating(p, args))

\* C16: calls share no state but the output directory: when the calls made
\* from worker threads write no common file name, each call, however the
\* calls interleave, ends as it does alone (a plan of one call), with the
\* same error or the same result, and leaves the same files with the same
\* bytes.
C16_InterleavedAsAlone ==
    (\A c, d \in DOMAIN plan :
        c # d => AlonePaths(pkg, plan[c]) \cap AlonePaths(pkg, plan[d]) = {}) =>
        /\ \A c \in DOMAIN call :
              Terminated(c) =>
                  LET args == plan[c]
                      n    == Cardinality(AloneIds(pkg, args))
                  IN  IF AloneError(pkg, args) # "" \/ AloneReadRaises(pkg, args)
                      THEN /\ call[c].pc = "raised"
                           /\ call[c].error = IF AloneError(pkg, args) # ""
                                               THEN AloneError(pkg, args) ELSE "KeyError"
                      ELSE /\ call[c].pc = "done"
                           /\ Len(call[c].saved) = n + Len(AloneFloating(pkg, args))
                           /\ Range(SubSeq(call[c].saved, 1, n)) =
                                  {PngFile(id) : id \in AloneIds(pkg, args)}
                           /\ SubSeq(call[c].saved, n + 1, Len(call[c].saved)) =
                                  AloneFloating(pkg, args)
                           /\ call[c].returned_none = (args.op = "id" /\ n = 0)
                           /\ \A id \in AloneIds(pkg, args) :
                                  /\ PngFile(id) \in DOMAIN files
                                  /\ files[PngFile(id)] = Part(pkg, EntryPath(pkg, id)).bytes
                           /\ Range(AloneFloating(pkg, args)) \subseteq DOMAIN files
        /\ (\A c \in DOMAIN call : call[c].pc = "done") =>
              DOMAIN files = UNION {AlonePaths(pkg, plan[c]) : c \in DOMAIN call}

\* C16 witness: two calls that write different files have both returned, the
\* second having started and saved a file while the first was still running
C16_Witness ==
    /\ threads /\ Len(call) = 2
    /\ AlonePaths(pkg, plan[1]) \cap AlonePaths(pkg, plan[2]) = {}
    /\ call[1].pc = "floating" /\ call[1].saved # <<>>
    /\ call[2].pc = "done" /\ call[2].saved # <<>>

\* the position map C17 describes: one entry per picture of the sheet's
\* drawing that has a blip, a complete anchor and a relationship-id that the
\* drawing's relationships part resolves, the last anchor of a filename kept
ClaimedAssign(p, pic) ==
    LET rs     == (IF HasPart(p, DrawingRelsStd) THEN Part(p, DrawingRelsStd).rels ELSE <<>>)
                  \o (IF HasPart(p, DrawingRelsFlat) THEN Part(p, DrawingRelsFlat).rels ELSE <<>>)
        hits   == {i \in DOMAIN rs : rs[i].Id = pic.embed}
        target == IF hits = {} THEN <<>> ELSE rs[CHOOSE i \in hits : \A j \in hits : i <= j].Target
    IN  [ok |-> pic.hasBlip /\ pic.anchor.present /\ target # <<>>,
         k  |-> BaseName(target),
         v  |-> [from_col |-> pic.anchor.from_col, to_col |-> pic.anchor.to_col,
                 from_row |-> pic.anchor.from_row, to_row |-> pic.anchor.to_row]]

ClaimedPositions(p, sheet_index) ==
    IF \/ ~HasPart(p, SheetRelsPrefix \o Str(sheet_index) \o XmlRelsExt)
       \/ ~HasPart(p, DrawingPart)
    THEN <<>>
    ELSE LET pics == Part(p, DrawingPart).pics
         IN  DictOf([i \in DOMAIN pics |-> ClaimedAssign(p, pics[i])])

\* C17 as stated: the position map of the sheet has, for every picture with a
\* blip, a complete anchor and a resolvable relationship-id, the entry
\* filename -> {from_col, to_col, from_row, to_row} of its anchor, the last
\* anchor of a filename winning.
C17_AsStated ==
    \A c \in DOMAIN call :
        (plan[c].op \in {"sheet", "column"} /\ call[c].pc = "floating") =>
            call[c].floating_positions = ClaimedPositions(pkg, call[c].ws)

\* C18 as stated: the position map is computed without an error whatever the
\* drawing holds; a picture that cannot be read is skipped and every other,
\* well-formed picture of the drawing is recorded; without a worksheet
\* relationships part, or without a drawing relationship in it, the map is
\* empty.
C18_AsStated ==
    \A c \in DOMAIN call :
        (/\ plan[c].op \in {"sheet", "column"} /\ plan[c].include_floating
         /\ call[c].pc \in {"floating", "return", "done"}) =>
            /\ call[c].error = ""
            /\ DrawingPath(pkg, call[c].ws) = <<>> => call[c].floating_positions = <<>>
            /\ DOMAIN ClaimedPositions(pkg, call[c].ws) \subseteq DOMAIN call[c].floating_positions

\* the target of the last relationship with the given Id, <<>> when there is none
TargetOfRid(rs, rid) ==
    LET hits == {j \in DOMAIN rs : rs[j].Id = rid}
    IN  IF hits = {} THEN <<>> ELSE rs[Last(hits)].Target

\* C19 as stated: the resolver's map is the join of the pictures with the
\* relationships on the relationship-id; a picture without relationship is
\* left out, and of the pictures that remain under one name the last gives
\* the target.
C19_AsStated ==
    \A c \in DOMAIN call :
        (/\ Readable(pkg) /\ ~ManifestMissing(pkg)
         /\ call[c].pc \notin {"idle", "load", "map", "resolve", "raised"}) =>
            LET pics   == Part(pkg, CellImagesPath).pics
                rs     == Part(pkg, CellImagesRelsPath).rels
                joined == {i \in DOMAIN pics : TargetOfRid(rs, pics[i].embed) # <<>>}
            IN  call[c].embedded_images =
                    [name \in {pics[i].name : i \in joined} |->
                        TargetOfRid(rs, pics[Last({i \in joined : pics[i].name = name})].embed)]

\* C19 (amended): the last picture of a name gives the name's
\* relationship-id, the last relationship of an Id gives the Id's target, and
\* the map holds the names whose relationship-id has a target, with that
\* target; a name whose last picture has no relationship is left out, even
\* when an earlier picture of that name has one, and nothing is raised.
C19_LastPictureThenJoin ==
    \A c \in DOMAIN call :
        (Readable(pkg) /\ ~ManifestMissing(pkg)) =>
            /\ (call[c].pc = "raised" /\ ~call[c].made_dir) =>
                   plan[c].op # "id" /\ call[c].error = LoadRaises(pkg, plan[c])
            /\ call[c].pc \notin {"idle", "load", "map", "resolve", "raised"} =>
                   LET pics      == Part(pkg, CellImagesPath).pics
                       rs        == Part(pkg, CellImagesRelsPath).rels
                       RidOf(nm) == pics[Last({i \in DOMAIN pics : pics[i].name = nm})].embed
                   IN  call[c].embedded_images =
                           [name \in {pics[i].name : i \in {j \in DOMAIN pics :
                                          TargetOfRid(rs, RidOf(pics[j].name)) # <<>>}} |->
                               TargetOfRid(rs, RidOf(name))]

\* C19 witness: the resolver has returned a map for a manifest in which two
\* pictures share a name, the later of them without relationship, and two
\* relationships share an Id
C19_Witness ==
    \E c \in DOMAIN call :
        /\ Readable(pkg) /\ ~ManifestMissing(pkg) /\ call[c].pc = "mkdir"
        /\ call[c].embedded_images # <<>>
        /\ LET pics == Part(pkg, CellImagesPath).pics
               rs   == Part(pkg, CellImagesRelsPath).rels
           IN  /\ \E i, j \in DOMAIN pics :
                      /\ i < j /\ pics[i].name = pics[j].name
                      /\ TargetOfRid(rs, pics[i].embed) # <<>>
                      /\ TargetOfRid(rs, pics[j].embed) = <<>>
               /\ \E i, j \in DOMAIN rs : i < j /\ rs[i].Id = rs[j].Id /\ rs[i].Target # rs[j].Target

\* the columns of the lookup a call makes for the naming callback
LookupColumns(c) == IF plan[c].op = "column" THEN call[c].column_list ELSE AllColumns

\* the cells of a worksheet, by row-major position, whose text holds the
\* marker and the identifier
MatchingCells(ws, img_id) ==
    {n \in DOMAIN CellsOf(ws) :
        Contains(CellsOf(ws)[n].value, Marker) /\ Contains(CellsOf(ws)[n].value, img_id)}

\* C20: the row lookup made for the naming callback takes the first cell, in
\* row-major order, whose text holds the marker and the identifier, and gives
\* a map whose keys are exactly the requested columns, each with the value of
\* that row in the column, empty for a text that is no column name; by id the
\* first worksheet with such a cell is taken, and without any matching cell
\* the map is empty.
C20_RowLookupFirstMatch ==
    \A c \in DOMAIN call :
        (plan[c].naming /\ call[c].saved # <<>> /\ call[c].row_id # <<>>) =>
            LET id == call[c].row_id
            IN  IF call[c].row_ws = 0
                THEN /\ call[c].row_data = <<>>
                     /\ plan[c].op = "id"
                     /\ \A i \in DOMAIN pkg.sheets : MatchingCells(pkg.sheets[i], id) = {}
                ELSE LET ws    == pkg.sheets[call[c].row_ws]
                         hits  == MatchingCells(ws, id)
                         first == CHOOSE n \in hits : \A m \in hits : n <= m
                         row   == CellsOf(ws)[first].row
                     IN  /\ hits # {}
                         /\ plan[c].op = "id" =>
                                \A i \in 1..(call[c].row_ws - 1) : MatchingCells(pkg.sheets[i], id) = {}
                         /\ DOMAIN call[c].row_data = Range(LookupColumns(c))
                         /\ \A col \in Range(LookupColumns(c)) :
                                LET idx == ColumnIndexFromString(col)
                                IN  call[c].row_data[col] =
                                        IF idx \in DOMAIN ws.rows[row] THEN ws.rows[row][idx] ELSE <<>>

\* C20 witness: a lookup has run on a worksheet where the identifier is in two
\* rows that differ in another column, over all columns A..Z
C20_Witness ==
    \E c \in DOMAIN call :
        /\ plan[c].naming /\ call[c].row_ws # 0 /\ call[c].row_id # <<>>
        /\ LET ws   == pkg.sheets[call[c].row_ws]
               hits == MatchingCells(ws, call[c].row_id)
           IN  \E n, m \in hits :
                  /\ CellsOf(ws)[n].row < CellsOf(ws)[m].row
                  /\ \E col \in DOMAIN call[c].row_data :
                         /\ call[c].row_data[col] = CellValue(ws, CellsOf(ws)[n].row, ColumnIndexFromString(col))
                         /\ call[c].row_data[col] # CellValue(ws, CellsOf(ws)[m].row, ColumnIndexFromString(col))

\* the text between the separators at the given positions, trimmed: the
\* pieces of a split, without the split
TrimmedPieces(spec, sep) ==
    LET at    == {i \in DOMAIN spec : spec[i] = sep}
        n     == Cardinality(at)
        Nth(k) == IF k = 0 THEN 0
                  ELSE IF k = n + 1 THEN Len(spec) + 1
                  ELSE CHOOSE i \in at : Cardinality({j \in at : j <= i}) = k
    IN  [k \in 1..(n + 1) |-> Strip(SubSeq(spec, Nth(k - 1) + 1, Nth(k) - 1))]

\* C21: the column specification is classified by precedence.  With a ','
\* the columns are the trimmed texts between the commas, a '-' in them left
\* alone; otherwise with a '-' they are every column from start to end of the
\* one range start-end, none when start is after end, and a text that is not
\* one range of two column names raises ValueError; otherwise the trimmed
\* specification is the one column.
C21_ColumnSpecPrecedence ==
    \A c \in DOMAIN call :
        (/\ plan[c].op = "column" /\ Readable(pkg) /\ SheetIndex(pkg, plan[c].sheet_name) # 0
         /\ call[c].pc \notin {"idle", "load"}) =>
            LET spec   == plan[c].columns
                commas == TrimmedPieces(spec, ",")
                dashes == TrimmedPieces(spec, "-")
            IN  IF Len(commas) > 1 THEN call[c].column_list = commas
                ELSE IF Len(dashes) > 1
                THEN IF /\ Len(dashes) = 2
                        /\ ColumnIndexFromString(dashes[1]) # 0
                        /\ ColumnIndexFromString(dashes[2]) # 0
                     THEN LET start == ColumnIndexFromString(dashes[1])
                              end   == ColumnIndexFromString(dashes[2])
                          IN  /\ Len(call[c].column_list) = IF start > end THEN 0 ELSE end - start + 1
                              /\ \A n \in DOMAIN call[c].column_list :
                                     ColumnIndexFromString(call[c].column_list[n]) = start + n - 1
                     ELSE /\ call[c].pc = "raised" /\ call[c].error = "ValueError"
                          /\ call[c].column_list = <<>>
                ELSE call[c].column_list = <<Strip(spec)>>

\* C21 witness: a specification with both ',' and '-' has been split on its
\* commas, a piece keeping its '-'
C21_Witness ==
    \E c \in DOMAIN call :
        /\ plan[c].op = "column" /\ call[c].pc \notin {"idle", "load"}
        /\ Contains(plan[c].columns, <<",">>) /\ Contains(plan[c].columns, <<"-">>)
        /\ Len(call[c].column_list) = 2
        /\ Contains(call[c].column_list[1], <<"-">>)

\* the text of a base filename from its last dot on, none when the name has
\* no dot after its first character
OriginalExt(filename) ==
    LET dots == {i \in 2..Len(filename) : filename[i] = "."}
    IN  IF dots = {} THEN <<>>
        ELSE SubSeq(filename, CHOOSE i \in dots : \A j \in dots : j <= i, Len(filename))

\* the file a workbook call is said to write for the i-th key of the media
\* listing, the extension being ext
ClaimedFloatFile(c, i, ext) ==
    IF plan[c].naming
    THEN OutFile(CustomNamingFunc(<<>>, <<>>, Len(call[c].saved) - Len(FloatingSaved(c)) + i)
                 \o ext)
    ELSE FloatFile(ExtractFloatingImages(pkg)[i].filename)

AfterLastSlash(path) ==
    LET slashes == {i \in DOMAIN path : path[i] = "/"}
    IN  IF slashes = {} THEN path
        ELSE SubSeq(path, (CHOOSE i \in slashes : \A j \in slashes : j <= i) + 1, Len(path))

\* the positions, in archive listing order, of the entries that start with
\* 'xl/media/' and do not end with '/'
MediaEntries(p) ==
    {i \in DOMAIN p.parts :
        LET name == p.parts[i].name
        IN  /\ Len(name) >= Len(MediaDir) /\ SubSeq(name, 1, Len(MediaDir)) = MediaDir
            /\ name[Len(name)] # "/"}

MarkerCells(ws, col) ==
    {rc \in (DOMAIN ws.rows) \X (1..26) :
        /\ rc[2] \in DOMAIN ws.rows[rc[1]]
        /\ col # 0 => rc[2] = col
        /\ \E i \in 1..Len(ws.rows[rc[1]][rc[2]]) :
               /\ i + Len(Marker) - 1 <= Len(ws.rows[rc[1]][rc[2]])
               /\ SubSeq(ws.rows[rc[1]][rc[2]], i, i + Len(Marker) - 1) = Marker}

\* row-major order of cells
RowMajorBefore(a, b) == a[1] < b[1] \/ (a[1] = b[1] /\ a[2] < b[2])

\* the column a call scans: 0 for a sheet call, the index of the one listed
\* column for a column call
ScannedColumn(c) ==
    IF plan[c].op = "sheet" THEN 0 ELSE ColumnIndexFromString(call[c].column_list[1])

\* C24: the Cell Scanner's output is the row-major sequence of one identifier
\* per cell whose text holds the marker, restricted to the target column when
\* one is given; duplicates are kept and a cell without text gives nothing.
C24_ScanRowMajor ==
    \A c \in DOMAIN call :
        (/\ \/ plan[c].op = "sheet"
            \/ plan[c].op = "column" /\ Len(call[c].column_list) = 1
         /\ call[c].ws # 0
         /\ call[c].pc \notin {"idle", "load", "raised"}) =>
            LET ws    == pkg.sheets[call[c].ws]
                cells == MarkerCells(ws, ScannedColumn(c))
            IN  /\ Len(call[c].all_ids) = Cardinality(cells)
                /\ \A rc \in cells :
                       call[c].all_ids[1 + Cardinality({d \in cells : RowMajorBefore(d, rc)})]
                           = DispimgId(ws.rows[rc[1]][rc[2]])

\* C24 witness: a column call has returned; its scan of one column holds an
\* identifier twice and leaves out marker cells of other columns, and the
\* worksheet has a cell without text
C24_Witness ==
    \E c \in DOMAIN call :
        /\ plan[c].op = "column" /\ Len(call[c].column_list) = 1 /\ call[c].pc = "done"
        /\ \E i, j \in DOMAIN call[c].all_ids : i # j /\ call[c].all_ids[i] = call[c].all_ids[j]
        /\ Len(call[c].all_ids) < Cardinality(MarkerCells(pkg.sheets[call[c].ws], 0))
        /\ \E r \in DOMAIN pkg.sheets[call[c].ws].rows :
               \E k \in DOMAIN pkg.sheets[call[c].ws].rows[r] :
                   pkg.sheets[call[c].ws].rows[r][k] = <<>>

\* the worksheets, by position in the workbook, on which the Cell Scanner
\* yields an identifier
SheetsReferencing(p, id) ==
    {i \in DOMAIN p.sheets : \E rc \in MarkerCells(p.sheets[i], 0) :
                                 DispimgId(p.sheets[i].rows[rc[1]][rc[2]]) = id}

\* the column names A..Z
LettersAZ ==
    {<<l>> : l \in {"A", "B", "C", "D", "E", "F", "G", "H", "I", "J", "K", "L", "M",
                    "N", "O", "P", "Q", "R", "S", "T", "U", "V", "W", "X", "Y", "Z"}}

\* C25: in extractWorkbook with a naming callback, each invocation of the
\* callback in the embedded loop is for an identifier not handled before, which
\* is not handled again; its row context is looked up on the last worksheet,
\* in workbook order, on which the identifier is referenced, and has the 26
\* columns A..Z.
C25_LastWorksheetWins ==
    [][\A c \in DOMAIN call :
          (plan[c].op = "workbook" /\ plan[c].naming /\ call[c].pc = "embedded") =>
              /\ call'[c].pending \subseteq call[c].pending
              /\ call'[c].sequence_counter # call[c].sequence_counter =>
                     \E id \in call[c].pending :
                         /\ call'[c].pending = call[c].pending \ {id}
                         /\ call'[c].sequence_counter = call[c].sequence_counter + 1
                         /\ call'[c].row_id = id
                         /\ SheetsReferencing(pkg, id) # {}
                         /\ \A i \in SheetsReferencing(pkg, id) : i <= call'[c].row_ws
                         /\ call'[c].row_ws \in SheetsReferencing(pkg, id)
                         /\ call'[c].row_data # <<>> => DOMAIN call'[c].row_data = LettersAZ
                         /\ LET ws   == pkg.sheets[call'[c].row_ws]
                                hits == MatchingCells(ws, id)
                            IN  IF hits = {} THEN call'[c].row_data = <<>>
                                ELSE \E n \in hits :
                                        \A col \in LettersAZ :
                                            call'[c].row_data[col] =
                                                CellValue(ws, CellsOf(ws)[n].row,
                                                          ColumnIndexFromString(col))]_vars

\* C25 witness: a workbook call with a naming callback has invoked the
\* callback for an identifier referenced on two worksheets, with the row of
\* the later one, which differs from the row of the earlier one
C25_Witness ==
    \E c \in DOMAIN call :
        /\ plan[c].op = "workbook" /\ plan[c].naming /\ call[c].saved # <<>>
        /\ Cardinality(SheetsReferencing(pkg, call[c].row_id)) = 2
        /\ call[c].row_ws = 2
        /\ call[c].row_data # <<>>
        /\ \A n \in MatchingCells(pkg.sheets[1], call[c].row_id) :
               \E col \in LettersAZ :
                   call[c].row_data[col] #
                       CellValue(pkg.sheets[1], CellsOf(pkg.sheets[1])[n].row,
                                 ColumnIndexFromString(col))

\* the names a call gives the files of the scanned identifiers that the
\* resolver maps
EmbeddedNames(c) ==
    LET ids == Range(call[c].all_ids) \cap DOMAIN call[c].embedded_images
    IN  IF plan[c].naming
        THEN {OutFile(CustomNamingFunc(<<>>, <<>>, k) \o PngExt) : k \in 1..Cardinality(ids)}
        ELSE {PngFile(id) : id \in ids}

\* C26: without include-floating, extractWorkbook, extractSheet and
\* extractColumn never invoke the position resolver and never enter the loop
\* over the media listing; the result holds at most one path per scanned
\* identifier that the resolver maps, each the name of such an identifier's
\* file, and the output directory holds no other file.
C26_NoFloatingWithoutFlag ==
    \A c \in DOMAIN call :
        (plan[c].op \in {"workbook", "sheet", "column"} /\ ~plan[c].include_floating) =>
            /\ call[c].pc \notin {"positions", "floating"}
            /\ call[c].handles <= 1
            /\ call[c].floating_positions = <<>>
            /\ Range(call[c].saved) \subseteq EmbeddedNames(c)
            /\ Len(call[c].saved) <= Cardinality(EmbeddedNames(c))
            /\ DOMAIN files = Range(call[c].saved)

\* C26 witness: a sheet or column call without include-floating has returned
\* with a file written, on a package whose media listing has an entry that is
\* anchored on the worksheet
C26_Witness ==
    \E c \in DOMAIN call :
        /\ plan[c].op \in {"sheet", "column"} /\ ~plan[c].include_floating
        /\ call[c].pc = "done"
        /\ call[c].saved # <<>>
        /\ call[c].floating_images # <<>>
        /\ \E a \in SheetAnchors(pkg, call[c].ws) : a.filename \in MediaNames(pkg)

\* the identifiers a call has to handle that the resolver maps to a target
\* path that is no entry of the archive
MissingTargets(c) ==
    {id \in (IF plan[c].op = "id" THEN {plan[c].image_id} ELSE Range(call[c].all_ids))
              \cap DOMAIN call[c].embedded_images :
        \A i \in DOMAIN pkg.parts :
            pkg.parts[i].name # <<"x", "l", "/">> \o call[c].embedded_images[id]}

ClaimedDialog(c) ==
    IF ValidateRaises(pkg, plan[c]) \/ call[c].pc = "raised" THEN "error"
    ELSE IF call[c].saved = <<>> THEN "warning"
    ELSE "success"

\* C28: every run of the window's extraction worker comes to its end and
\* stays there with exactly one dialog scheduled: the error dialog when
\* validate_inputs or the core operation raised, the warning dialog when no
\* file was saved, the success dialog otherwise; no exception has left the
\* thread, and after a failed validation the core operation has not started
\* and has written nothing.
C28_WorkerEndsWithOneDialog ==
    <>[](\A c \in DOMAIN call :
            plan[c].gui.on =>
                /\ call[c].worker = "ended"
                /\ call[c].dialogs = <<ClaimedDialog(c)>>
                /\ ValidateRaises(pkg, plan[c]) =>
                       /\ call[c].pc = "idle"
                       /\ call[c].saved = <<>>
                       /\ ~call[c].made_dir
                /\ ~ValidateRaises(pkg, plan[c]) => call[c].pc \in {"done", "raised"})

\* C28 witness: a worker has ended with the error dialog scheduled, after its
\* core operation wrote a file and raised
C28_Witness ==
    \E c \in DOMAIN call :
        /\ plan[c].gui.on /\ call[c].worker = "ended" /\ call[c].dialogs = <<"error">>
        /\ call[c].pc = "raised" /\ call[c].saved # <<>> /\ DOMAIN files # {}
====
